---- MODULE Spec2Model ----
(***************************************************************************)
(* Model of the KEATS scraper's chunking engine                            *)
(* (src/keats_scraper/processors/chunker.py, models/chunk.py).             *)
(*                                                                         *)
(* A text is a sequence of one-character strings.  Character offsets are   *)
(* 0-based as in Python; sequence indices are 1-based, so the character at *)
(* offset p of text t is t[p + 1].                                         *)
(***************************************************************************)
EXTENDS Integers, Sequences, FiniteSets, TLC

VARIABLES
    document,             \* the Document handed to the chunker: [id, content]
    config,               \* ChunkConfig: chunk_size, chunk_overlap, preserve_headings
    tiktoken_installed,   \* environment: does "import tiktoken" succeed
    encoding_loads,       \* environment: does tiktoken.get_encoding(...) succeed
    clock,                \* environment: what datetime.utcnow() returns
    tokenizer,            \* Chunker._tokenizer: "None", "word" or "tiktoken"
    raw_chunks,           \* result of _split_by_separators
    chunks_with_overlap,  \* result of _add_overlap
    chunks,               \* result of chunk_document
    at_position,          \* argument of a direct _extract_heading_at_position call
    headings_found,       \* result of that call
    pc,                   \* which call has returned, or "raised"
    counted_text,         \* argument of the last direct _count_tokens call
    token_count,          \* what that call returned
    used_strategy,        \* the strategy that call counted with
    first_strategy,       \* what the first _get_tokenizer call to return returned
    load_count,           \* how often tiktoken.get_encoding has returned an encoding
    calls,                \* number of direct _count_tokens calls so far
    documents,            \* the list handed to chunk_documents
    all_chunks,           \* what chunk_documents returned
    call_results,         \* what each chunk_document call inside it returned
    call_times,           \* the clock reading during each of those calls
    threads,              \* the threads that call chunk_document on one Chunker
    rate_limiter,         \* a RateLimiter and the wall clock it reads
    checkpoint,           \* a CheckpointManager and its progress.json
    sso,                  \* an SSOHandler, its browser and its cookie file
    scrape_run            \* one run after another of the scrape command

\* the environment of the process: installed packages and the clock
env == <<tiktoken_installed, encoding_loads, clock>>

\* what the direct _count_tokens calls of SpecTokenizer record
count_vars == <<counted_text, token_count, used_strategy, first_strategy, load_count,
                calls>>

\* what a chunk_documents call of SpecBatch reads and writes
batch_vars == <<documents, all_chunks, call_results, call_times>>

\* the parts of the scraper outside the chunker
services == <<rate_limiter, checkpoint, sso, scrape_run>>

\* the chunker's own state
chunker_vars == <<document, config, env, tokenizer, raw_chunks,
                  chunks_with_overlap, chunks, at_position, headings_found, pc,
                  count_vars, batch_vars, threads>>

vars == <<chunker_vars, services>>

(***************************************************************************)
(* Bounds of the model                                                     *)
(***************************************************************************)
MaxParas == 2
MaxCalls == 3
MaxDocs == 2
MaxChunkSize == 2
MaxOverlap == 2
MaxHeadLines == 4

(***************************************************************************)
(* Python string primitives                                                *)
(***************************************************************************)
SP == " "
NL == "\n"

\* str.isspace / regex \s on the characters of the model
IsSpace(c) == c \in {SP, NL}

Min(S) == CHOOSE x \in S : \A y \in S : x <= y
Max(S) == CHOOSE x \in S : \A y \in S : x >= y

\* str.strip()
Strip(s) ==
    LET nonws == {i \in 1..Len(s) : ~IsSpace(s[i])}
    IN  IF nonws = {} THEN <<>> ELSE SubSeq(s, Min(nonws), Max(nonws))

\* str.split(): the maximal runs of non-whitespace characters
RECURSIVE WordsFrom(_, _, _)
WordsFrom(s, i, cur) ==
    IF i > Len(s) THEN (IF cur = <<>> THEN <<>> ELSE <<cur>>)
    ELSE IF IsSpace(s[i])
         THEN (IF cur = <<>> THEN <<>> ELSE <<cur>>) \o WordsFrom(s, i + 1, <<>>)
         ELSE WordsFrom(s, i + 1, Append(cur, s[i]))

Words(s) == WordsFrom(s, 1, <<>>)

\* sep.join(parts)
RECURSIVE Join(_, _)
Join(parts, sep) ==
    IF parts = <<>> THEN <<>>
    ELSE IF Len(parts) = 1 THEN parts[1]
    ELSE parts[1] \o sep \o Join(Tail(parts), sep)

\* number of consecutive characters from index i on that satisfy the test
RECURSIVE NewlineRun(_, _)
NewlineRun(s, i) ==
    IF i <= Len(s) /\ s[i] = NL THEN 1 + NewlineRun(s, i + 1) ELSE 0

RECURSIVE SpaceRun(_, _)
SpaceRun(s, i) ==
    IF i <= Len(s) /\ IsSpace(s[i]) THEN 1 + SpaceRun(s, i + 1) ELSE 0

RECURSIVE HashRun(_, _)
HashRun(s, i) ==
    IF i <= Len(s) /\ s[i] = "#" THEN 1 + HashRun(s, i + 1) ELSE 0

RECURSIVE LineRun(_, _)
LineRun(s, i) ==
    IF i <= Len(s) /\ s[i] # NL THEN 1 + LineRun(s, i + 1) ELSE 0

\* re.split(r"\n\n+", text)
RECURSIVE ParaSplitFrom(_, _, _)
ParaSplitFrom(s, i, cur) ==
    IF i > Len(s) THEN <<cur>>
    ELSE IF NewlineRun(s, i) >= 2
         THEN <<cur>> \o ParaSplitFrom(s, i + NewlineRun(s, i), <<>>)
         ELSE ParaSplitFrom(s, i + 1, Append(cur, s[i]))

SplitParagraphs(s) == ParaSplitFrom(s, 1, <<>>)

\* re.split(r"(?<=[.!?])\s+", para)
RECURSIVE SentSplitFrom(_, _, _)
SentSplitFrom(s, i, cur) ==
    IF i > Len(s) THEN <<cur>>
    ELSE IF i > 1 /\ s[i - 1] \in {".", "!", "?"} /\ IsSpace(s[i])
         THEN <<cur>> \o SentSplitFrom(s, i + SpaceRun(s, i), <<>>)
         ELSE SentSplitFrom(s, i + 1, Append(cur, s[i]))

SplitSentences(s) == SentSplitFrom(s, 1, <<>>)

\* text.find(sub, start): offset of the first occurrence at or after start, -1 if none
Find(text, sub, start) ==
    LET from == IF start < 0 THEN Max({0, Len(text) + start}) ELSE start
        hits == {p \in from..(Len(text) - Len(sub)) :
                    SubSeq(text, p + 1, p + Len(sub)) = sub}
    IN  IF hits = {} THEN -1 ELSE Min(hits)

\* text[:position]
Prefix(text, position) ==
    LET stop == IF position < 0 THEN Max({0, Len(text) + position})
                ELSE IF position > Len(text) THEN Len(text) ELSE position
    IN  SubSeq(text, 1, stop)

(***************************************************************************)
(* Token counting (Chunker._get_tokenizer, Chunker._count_tokens)          *)
(***************************************************************************)
\* _get_tokenizer probing for tiktoken on every call, without the cache
GetTokenizerReprobing(tok, installed) == IF installed THEN "tiktoken" ELSE "word"

\* _get_tokenizer without the "except ImportError" fallback
GetTokenizerNoFallback(tok, installed) == IF tok = "None" THEN "tiktoken" ELSE tok

\* _get_tokenizer: the cached strategy, or the one chosen on first use
GetTokenizer(tok, installed) ==
    IF tok = "None" THEN (IF installed THEN "tiktoken" ELSE "word") ELSE tok

\* an initialisation that first stores the fallback "word" and then replaces
\* it once the import has succeeded
TokenizerWritesDefaultFirst(installed) ==
    IF installed THEN <<"word", "tiktoken">> ELSE <<"word">>

\* the values the branch "if self._tokenizer is None" assigns to
\* self._tokenizer, in order, when it does not raise: one assignment, in the
\* try block or in the except block
TokenizerWrites(installed) == <<GetTokenizer("None", installed)>>

\* _get_tokenizer executes "self._tokenizer = tiktoken.get_encoding(...)"
EncodingLoaded(tok, installed, loads) == tok = "None" /\ installed /\ loads

\* _get_tokenizer raises instead of returning: the import succeeds and
\* tiktoken.get_encoding(...) fails with an exception; "except ImportError"
\* does not catch it, and self._tokenizer keeps the value None
GetTokenizerRaises(tok, installed, loads) == tok = "None" /\ installed /\ ~loads

\* len(tokenizer.encode(text)) of the sub-word tokenizer.  The encoder is an
\* external library; it is modelled as one token per character other than a
\* blank (a blank merges into the token that follows it).
EncodeLen(s) == Cardinality({i \in 1..Len(s) : s[i] # SP})

\* _count_tokens
CountTokens(tok, s) ==
    IF tok = "word" THEN Len(Words(s)) ELSE EncodeLen(s)

(***************************************************************************)
(* Chunker._split_by_separators                                            *)
(* The accumulator is [chunks, current_chunk, current_start,               *)
(* current_length]; a chunk is [text, start].                              *)
(***************************************************************************)
PARA_SEP == <<NL, NL>>

\* Flush without its guard "if current_chunk:"
FlushUnguarded(st) ==
    Append(st.chunks, [text  |-> Join(st.current_chunk, PARA_SEP),
                       start |-> st.current_start])

\* chunks.append(("\n\n".join(current_chunk), current_start)) when current_chunk
Flush(st) ==
    IF st.current_chunk # <<>>
    THEN Append(st.chunks, [text  |-> Join(st.current_chunk, PARA_SEP),
                            start |-> st.current_start])
    ELSE st.chunks

\* SentenceStep that starts a new chunk with every sentence
SentenceStepAlwaysFlushing(st, raw_sentence, text, size, tok) ==
    LET sentence    == Strip(raw_sentence)
        sent_tokens == CountTokens(tok, sentence)
    IN  [chunks         |-> Flush(st),
         current_chunk  |-> <<sentence>>,
         current_start  |-> Find(text, sentence, st.current_start),
         current_length |-> sent_tokens]

\* body of "for sentence in sentences"
SentenceStep(st, raw_sentence, text, size, tok) ==
    LET sentence    == Strip(raw_sentence)
        sent_tokens == CountTokens(tok, sentence)
    IN  IF st.current_length + sent_tokens > size
        THEN [chunks         |-> Flush(st),
              current_chunk  |-> <<sentence>>,
              current_start  |-> Find(text, sentence, st.current_start),
              current_length |-> sent_tokens]
        ELSE [st EXCEPT !.current_chunk  = Append(@, sentence),
                        !.current_length = @ + sent_tokens]

RECURSIVE SentenceLoop(_, _, _, _, _, _)
SentenceLoop(st, sentences, j, text, size, tok) ==
    IF j > Len(sentences) THEN st
    ELSE SentenceLoop(SentenceStep(st, sentences[j], text, size, tok),
                      sentences, j + 1, text, size, tok)

\* ParaStep with the budget test of the second branch dropped: a paragraph
\* that fits on its own is always added to the current chunk
ParaStepNoBudget(st, raw_para, text, size, tok) ==
    LET para        == Strip(raw_para)
        para_tokens == CountTokens(tok, para)
    IN  IF para = <<>> THEN st
        ELSE IF para_tokens > size
        THEN LET saved == IF st.current_chunk # <<>>
                          THEN [st EXCEPT !.chunks         = Flush(st),
                                          !.current_chunk  = <<>>,
                                          !.current_length = 0]
                          ELSE st
             IN  SentenceLoop(saved, SplitSentences(para), 1, text, size, tok)
        ELSE [st EXCEPT !.current_start  = IF st.current_chunk = <<>>
                                           THEN Find(text, para, st.current_start)
                                           ELSE @,
                        !.current_chunk  = Append(@, para),
                        !.current_length = @ + para_tokens]

\* ParaStep without "para = para.strip()"
ParaStepNoStrip(st, raw_para, text, size, tok) ==
    LET para        == raw_para
        para_tokens == CountTokens(tok, para)
    IN  IF para = <<>> THEN st
        ELSE IF para_tokens > size
        THEN LET saved == IF st.current_chunk # <<>>
                          THEN [st EXCEPT !.chunks         = Flush(st),
                                          !.current_chunk  = <<>>,
                                          !.current_length = 0]
                          ELSE st
             IN  SentenceLoop(saved, SplitSentences(para), 1, text, size, tok)
        ELSE IF st.current_length + para_tokens > size
        THEN [chunks         |-> Flush(st),
              current_chunk  |-> <<para>>,
              current_start  |-> Find(text, para, st.current_start),
              current_length |-> para_tokens]
        ELSE [st EXCEPT !.current_start  = IF st.current_chunk = <<>>
                                           THEN Find(text, para, st.current_start)
                                           ELSE @,
                        !.current_chunk  = Append(@, para),
                        !.current_length = @ + para_tokens]

\* body of "for para in paragraphs"
ParaStep(st, raw_para, text, size, tok) ==
    LET para        == Strip(raw_para)
        para_tokens == CountTokens(tok, para)
    IN  IF para = <<>> THEN st
        ELSE IF para_tokens > size
        THEN LET saved == IF st.current_chunk # <<>>
                          THEN [st EXCEPT !.chunks         = Flush(st),
                                          !.current_chunk  = <<>>,
                                          !.current_length = 0]
                          ELSE st
             IN  SentenceLoop(saved, SplitSentences(para), 1, text, size, tok)
        ELSE IF st.current_length + para_tokens > size
        THEN [chunks         |-> Flush(st),
              current_chunk  |-> <<para>>,
              current_start  |-> Find(text, para, st.current_start),
              current_length |-> para_tokens]
        ELSE [st EXCEPT !.current_start  = IF st.current_chunk = <<>>
                                           THEN Find(text, para, st.current_start)
                                           ELSE @,
                        !.current_chunk  = Append(@, para),
                        !.current_length = @ + para_tokens]

RECURSIVE ParaLoop(_, _, _, _, _, _)
ParaLoop(st, paragraphs, i, text, size, tok) ==
    IF i > Len(paragraphs) THEN st
    ELSE ParaLoop(ParaStep(st, paragraphs[i], text, size, tok),
                  paragraphs, i + 1, text, size, tok)

\* SplitBySeparators without the final "if current_chunk: chunks.append(...)"
SplitBySeparatorsNoLastFlush(text, size, tok) ==
    LET start == [chunks |-> <<>>, current_chunk |-> <<>>,
                  current_start |-> 0, current_length |-> 0]
    IN  ParaLoop(start, SplitParagraphs(text), 1, text, size, tok).chunks

SplitBySeparators(text, size, tok) ==
    LET start == [chunks |-> <<>>, current_chunk |-> <<>>,
                  current_start |-> 0, current_length |-> 0]
    IN  Flush(ParaLoop(start, SplitParagraphs(text), 1, text, size, tok))

(***************************************************************************)
(* Chunker._add_overlap                                                    *)
(***************************************************************************)
ELLIPSIS == <<".", ".", ".">>

\* prev_words[-n:] if len(prev_words) > n else prev_words
OverlapWords(prev_words, n) ==
    IF Len(prev_words) > n /\ n > 0
    THEN SubSeq(prev_words, Len(prev_words) - n + 1, Len(prev_words))
    ELSE prev_words

\* f"...{overlap_text}\n\n{chunk_text}"
WithOverlap(prev_text, chunk_text, overlap) ==
    ELLIPSIS \o Join(OverlapWords(Words(prev_text), overlap), <<SP>>)
             \o PARA_SEP \o chunk_text

\* AddOverlap with the test "i > 0" dropped: the first chunk takes its overlap
\* from chunks[-1], the last chunk
AddOverlapFromFirst(cs, overlap) ==
    IF cs = <<>> \/ overlap = 0 THEN cs
    ELSE [i \in 1..Len(cs) |->
            [text  |-> WithOverlap(cs[IF i > 1 THEN i - 1 ELSE Len(cs)].text,
                                   cs[i].text, overlap),
             start |-> cs[i].start]]

\* AddOverlap taking the previous text from result, the chunks already
\* given their overlap, instead of from chunks
RECURSIVE CompoundFrom(_, _, _, _)
CompoundFrom(cs, overlap, i, result) ==
    IF i > Len(cs) THEN result
    ELSE CompoundFrom(cs, overlap, i + 1,
            Append(result,
                   [text  |-> IF i > 1
                              THEN WithOverlap(result[i - 1].text, cs[i].text, overlap)
                              ELSE cs[i].text,
                    start |-> cs[i].start]))

AddOverlapCompounding(cs, overlap) ==
    IF cs = <<>> \/ overlap = 0 THEN cs
    ELSE CompoundFrom(cs, overlap, 1, <<>>)

\* AddOverlap without the early return for chunk_overlap == 0
AddOverlapNoGuard(cs, overlap) ==
    [i \in 1..Len(cs) |->
        IF i > 1
        THEN [text  |-> WithOverlap(cs[i - 1].text, cs[i].text, overlap),
              start |-> cs[i].start]
        ELSE cs[i]]

AddOverlap(cs, overlap) ==
    IF cs = <<>> \/ overlap = 0 THEN cs
    ELSE [i \in 1..Len(cs) |->
            IF i > 1
            THEN [text  |-> WithOverlap(cs[i - 1].text, cs[i].text, overlap),
                  start |-> cs[i].start]
            ELSE cs[i]]

(***************************************************************************)
(* Chunker._extract_heading_at_position                                    *)
(***************************************************************************)
MAX_HEADING_LEVEL == 6

\* One attempt of the pattern ^(#{1,6})\s+(.+)$ (re.MULTILINE) at index i of s:
\* a line start, 1..6 hashes, a whitespace run (it may span newlines and gives
\* characters back until a character other than a newline follows), then the
\* rest of that line.  The result is <<>> or a one-element sequence holding
\* the match: start offset, level, stripped title, index after the match.
HeadingMatchAt(s, i) ==
    LET h     == HashRun(s, i)
        w     == SpaceRun(s, i + h)
        gives == {k \in 1..w : i + h + k <= Len(s) /\ s[i + h + k] # NL}
    IN  IF (i = 1 \/ s[i - 1] = NL) /\ h >= 1 /\ h <= MAX_HEADING_LEVEL /\ gives # {}
        THEN LET from == i + h + Max(gives)
                 stop == from + LineRun(s, from)
             IN  <<[start |-> i - 1,
                    level |-> h,
                    title |-> Strip(SubSeq(s, from, stop - 1)),
                    next  |-> stop]>>
        ELSE <<>>

\* re.finditer(heading_pattern, s, re.MULTILINE)
RECURSIVE HeadingsFrom(_, _)
HeadingsFrom(s, i) ==
    IF i > Len(s) THEN <<>>
    ELSE LET m == HeadingMatchAt(s, i)
         IN  IF m # <<>> THEN m \o HeadingsFrom(s, m[1].next)
             ELSE HeadingsFrom(s, i + 1)

HeadingMatches(s) == HeadingsFrom(s, 1)

\* SetLevel without the deletion of the deeper levels
SetLevelKeepDeeper(hierarchy, level, title) ==
    [l \in (DOMAIN hierarchy) \cup {level} |->
        IF l = level THEN title ELSE hierarchy[l]]

\* hierarchy[level] = title, then delete every recorded level l > level
SetLevel(hierarchy, level, title) ==
    [l \in {k \in (DOMAIN hierarchy) \cup {level} : k <= level} |->
        IF l = level THEN title ELSE hierarchy[l]]

RECURSIVE BuildHierarchy(_, _, _)
BuildHierarchy(hierarchy, headings, i) ==
    IF i > Len(headings) THEN hierarchy
    ELSE BuildHierarchy(SetLevel(hierarchy, headings[i].level, headings[i].title),
                        headings, i + 1)

\* [hierarchy[l] for l in sorted(hierarchy.keys())]
RECURSIVE TitlesFrom(_, _)
TitlesFrom(hierarchy, l) ==
    IF l > MAX_HEADING_LEVEL THEN <<>>
    ELSE (IF l \in DOMAIN hierarchy THEN <<hierarchy[l]>> ELSE <<>>)
         \o TitlesFrom(hierarchy, l + 1)

EmptyHierarchy == [l \in {} |-> <<>>]

HeadingPath(headings) == TitlesFrom(BuildHierarchy(EmptyHierarchy, headings, 1), 1)

\* ScannedHeadings scanning the whole text instead of text[:position]
ScannedHeadingsWholeText(text, position) == HeadingMatches(text)

\* the headings the scan of text[:position] finds
ScannedHeadings(text, position) == HeadingMatches(Prefix(text, position))

ExtractHeadingAtPosition(text, position) == HeadingPath(ScannedHeadings(text, position))

(***************************************************************************)
(* Chunk.create and Chunker.chunk_document                                 *)
(***************************************************************************)
\* hashlib.md5(text.encode()).hexdigest(): a digest that depends on the text only
Md5(text) == <<"md5", text>>

\* f"[Context: {' > '.join(heading_path)}]\n\n{chunk_text}"
ContextPrefix(heading_path) ==
    <<"[", "C", "o", "n", "t", "e", "x", "t", ":", SP>>
    \o Join(heading_path, <<SP, ">", SP>>) \o <<"]">> \o PARA_SEP

\* Chunk.create deriving the id from the time of creation as well
ChunkCreateTimedId(text, document_id, chunk_index, total_chunks, heading_path, utcnow) ==
    [id       |-> <<document_id, "_chunk_", chunk_index, "_", utcnow>>,
     text     |-> text,
     metadata |-> [document_id         |-> document_id,
                   heading_path        |-> heading_path,
                   chunk_index         |-> chunk_index,
                   total_chunks_in_doc |-> total_chunks,
                   char_count          |-> Len(text),
                   word_count          |-> Len(Words(text)),
                   content_hash        |-> Md5(text),
                   extraction_date     |-> utcnow]]

\* Chunk.create hashing the document id together with the text
ChunkCreateHashingId(text, document_id, chunk_index, total_chunks, heading_path, utcnow) ==
    [id       |-> <<document_id, "_chunk_", chunk_index>>,
     text     |-> text,
     metadata |-> [document_id         |-> document_id,
                   heading_path        |-> heading_path,
                   chunk_index         |-> chunk_index,
                   total_chunks_in_doc |-> total_chunks,
                   char_count          |-> Len(text),
                   word_count          |-> Len(Words(text)),
                   content_hash        |-> Md5(<<document_id>> \o text),
                   extraction_date     |-> utcnow]]

\* Chunk.create(text, document_id, chunk_index, total_chunks, heading_path=...);
\* ChunkMetadata fills extraction_date with datetime.utcnow()
ChunkCreate(text, document_id, chunk_index, total_chunks, heading_path, utcnow) ==
    [id       |-> <<document_id, "_chunk_", chunk_index>>,
     text     |-> text,
     metadata |-> [document_id         |-> document_id,
                   heading_path        |-> heading_path,
                   chunk_index         |-> chunk_index,
                   total_chunks_in_doc |-> total_chunks,
                   char_count          |-> Len(text),
                   word_count          |-> Len(Words(text)),
                   content_hash        |-> Md5(text),
                   extraction_date     |-> utcnow]]

\* AssembleChunks numbering the chunks from 1 (enumerate(..., 1))
AssembleChunksOneBased(doc, cfg, with_overlap, utcnow) ==
    [k \in 1..Len(with_overlap) |->
        LET heading_path == ExtractHeadingAtPosition(doc.content, with_overlap[k].start)
            chunk_text   == IF cfg.preserve_headings /\ heading_path # <<>>
                            THEN ContextPrefix(heading_path) \o with_overlap[k].text
                            ELSE with_overlap[k].text
        IN  ChunkCreate(chunk_text, doc.id, k, Len(with_overlap), heading_path, utcnow)]

\* AssembleChunks looking the headings up only when preserve_headings is set
AssembleChunksPathIfPreserved(doc, cfg, with_overlap, utcnow) ==
    [k \in 1..Len(with_overlap) |->
        LET heading_path == IF cfg.preserve_headings
                            THEN ExtractHeadingAtPosition(doc.content,
                                                          with_overlap[k].start)
                            ELSE <<>>
            chunk_text   == IF cfg.preserve_headings /\ heading_path # <<>>
                            THEN ContextPrefix(heading_path) \o with_overlap[k].text
                            ELSE with_overlap[k].text
        IN  ChunkCreate(chunk_text, doc.id, k - 1, Len(with_overlap), heading_path,
                        utcnow)]

\* the loop "for i, (chunk_text, start_pos) in enumerate(chunks_with_overlap)"
AssembleChunks(doc, cfg, with_overlap, utcnow) ==
    [k \in 1..Len(with_overlap) |->
        LET heading_path == ExtractHeadingAtPosition(doc.content, with_overlap[k].start)
            chunk_text   == IF cfg.preserve_headings /\ heading_path # <<>>
                            THEN ContextPrefix(heading_path) \o with_overlap[k].text
                            ELSE with_overlap[k].text
        IN  ChunkCreate(chunk_text, doc.id, k - 1, Len(with_overlap), heading_path,
                        utcnow)]

\* "not text or not text.strip()"
IsBlank(text) == text = <<>> \/ Strip(text) = <<>>

\* chunk_document with an except clause that returns what has been built
ChunkDocumentCallSwallowing(doc, cfg, tok, installed, loads, utcnow) ==
    IF IsBlank(doc.content) \/ GetTokenizerRaises(tok, installed, loads)
    THEN [raised |-> FALSE, tokenizer |-> tok, raw_chunks |-> <<>>,
          chunks_with_overlap |-> <<>>, chunks |-> <<>>]
    ELSE LET strategy == GetTokenizer(tok, installed)
             raw      == SplitBySeparators(doc.content, cfg.chunk_size, strategy)
             ovl      == AddOverlap(raw, cfg.chunk_overlap)
         IN  [raised |-> FALSE, tokenizer |-> strategy, raw_chunks |-> raw,
              chunks_with_overlap |-> ovl,
              chunks |-> AssembleChunks(doc, cfg, ovl, utcnow)]

\* one call of chunk_document on an instance whose _tokenizer is tok: whether
\* it raises, and if it returns, the list it returns, its intermediate lists
\* and the value it leaves in _tokenizer.  The first _count_tokens call of
\* _split_by_separators is where _get_tokenizer can raise.
ChunkDocumentCall(doc, cfg, tok, installed, loads, utcnow) ==
    IF IsBlank(doc.content)
    THEN [raised |-> FALSE, tokenizer |-> tok, raw_chunks |-> <<>>,
          chunks_with_overlap |-> <<>>, chunks |-> <<>>]
    ELSE IF GetTokenizerRaises(tok, installed, loads)
    THEN [raised |-> TRUE, tokenizer |-> tok, raw_chunks |-> <<>>,
          chunks_with_overlap |-> <<>>, chunks |-> <<>>]
    ELSE LET strategy == GetTokenizer(tok, installed)
             raw      == SplitBySeparators(doc.content, cfg.chunk_size, strategy)
             ovl      == AddOverlap(raw, cfg.chunk_overlap)
         IN  [raised |-> FALSE, tokenizer |-> strategy, raw_chunks |-> raw,
              chunks_with_overlap |-> ovl,
              chunks |-> AssembleChunks(doc, cfg, ovl, utcnow)]

\* the loop of chunk_documents with all_chunks.append(chunks) for
\* all_chunks.extend(chunks)
RECURSIVE ChunkDocumentsLoopAppending(_, _, _, _, _, _, _, _)
ChunkDocumentsLoopAppending(docs, i, cfg, tok, installed, loads, times, acc) ==
    IF i > Len(docs)
    THEN [raised |-> FALSE, tokenizer |-> tok, all_chunks |-> acc.all_chunks,
          returned |-> acc.returned]
    ELSE LET call == ChunkDocumentCall(docs[i], cfg, tok, installed, loads, times[i])
         IN  IF call.raised
             THEN [raised |-> TRUE, tokenizer |-> call.tokenizer,
                   all_chunks |-> acc.all_chunks, returned |-> acc.returned]
             ELSE ChunkDocumentsLoopAppending(
                      docs, i + 1, cfg, call.tokenizer, installed, loads, times,
                      [all_chunks |-> Append(acc.all_chunks, call.chunks),
                       returned   |-> Append(acc.returned, call.chunks)])

\* "for doc in documents: chunks = self.chunk_document(doc);
\* all_chunks.extend(chunks)" from document i on: acc.all_chunks is the list
\* built so far, acc.returned what each call so far returned.  An exception
\* of a call ends the loop and chunk_documents raises.
RECURSIVE ChunkDocumentsLoop(_, _, _, _, _, _, _, _)
ChunkDocumentsLoop(docs, i, cfg, tok, installed, loads, times, acc) ==
    IF i > Len(docs)
    THEN [raised |-> FALSE, tokenizer |-> tok, all_chunks |-> acc.all_chunks,
          returned |-> acc.returned]
    ELSE LET call == ChunkDocumentCall(docs[i], cfg, tok, installed, loads, times[i])
         IN  IF call.raised
             THEN [raised |-> TRUE, tokenizer |-> call.tokenizer,
                   all_chunks |-> acc.all_chunks, returned |-> acc.returned]
             ELSE ChunkDocumentsLoop(
                      docs, i + 1, cfg, call.tokenizer, installed, loads, times,
                      [all_chunks |-> acc.all_chunks \o call.chunks,
                       returned   |-> Append(acc.returned, call.chunks)])

\* _split_by_separators reaches a _count_tokens call: some paragraph of the
\* text survives "para.strip()" and "if not para: continue"
CountTokensCalled(text) ==
    \E i \in 1..Len(SplitParagraphs(text)) : Strip(SplitParagraphs(text)[i]) # <<>>

(***************************************************************************)
(* Inputs                                                                  *)
(***************************************************************************)
\* the paragraphs documents are built from
ParaShapes ==
    { <<"a">>,
      <<"b", SP, "a">>,
      <<"a", ".", SP, "b", ".", SP, "a", ".", SP>>,
      <<"#", SP, "a">>,
      <<"#", "#", SP, "b">>,
      <<".", ".", ".", "a">>,
      <<SP>> }

Contents ==
    {Join(ps, PARA_SEP) : ps \in UNION {[1..n -> ParaShapes] : n \in 0..MaxParas}}

Configs ==
    [chunk_size        : 1..MaxChunkSize,
     chunk_overlap     : 0..MaxOverlap,
     preserve_headings : BOOLEAN]

\* chunk_documents has not been called
NothingBatched ==
    /\ documents = <<>>
    /\ all_chunks = <<>>
    /\ call_results = <<>>
    /\ call_times = <<>>

\* none of the scraper's other parts has been constructed
ServicesUnused ==
    /\ rate_limiter = <<>>
    /\ checkpoint = <<>>
    /\ sso = <<>>
    /\ scrape_run = <<>>

\* no direct _count_tokens call has been made
NothingCounted ==
    /\ counted_text = <<>>
    /\ token_count = 0
    /\ used_strategy = "None"
    /\ first_strategy = "None"
    /\ load_count = 0
    /\ calls = 0

(***************************************************************************)
(* The state machine: a Chunker is constructed, then one of its methods is *)
(* called on the document                                                  *)
(***************************************************************************)
Init ==
    /\ document \in [id : {"doc1"}, content : Contents]
    /\ config \in Configs
    /\ tiktoken_installed \in BOOLEAN
    /\ encoding_loads \in {b \in BOOLEAN : b => tiktoken_installed}
    /\ clock = 0
    /\ tokenizer = "None"
    /\ raw_chunks = <<>>
    /\ chunks_with_overlap = <<>>
    /\ chunks = <<>>
    /\ at_position = 0
    /\ headings_found = <<>>
    /\ pc = "idle"
    /\ NothingCounted
    /\ NothingBatched
    /\ threads = <<>>
    /\ ServicesUnused

\* chunker._split_by_separators(text), called directly
CallSplitBySeparators ==
    /\ pc = "idle"
    /\ IF CountTokensCalled(document.content)
          /\ GetTokenizerRaises(tokenizer, tiktoken_installed, encoding_loads)
       THEN /\ pc' = "raised"
            /\ UNCHANGED <<tokenizer, raw_chunks>>
       ELSE LET tok == GetTokenizer(tokenizer, tiktoken_installed)
            IN  /\ raw_chunks' = SplitBySeparators(document.content, config.chunk_size,
                                                   tok)
                /\ tokenizer' = IF CountTokensCalled(document.content)
                                THEN tok ELSE tokenizer
                /\ pc' = "split"
    /\ UNCHANGED <<document, config, env, chunks_with_overlap, chunks,
                   at_position, headings_found, count_vars, batch_vars, threads, services>>

\* chunker._add_overlap(chunks, text), called directly on the split result
CallAddOverlap ==
    /\ pc = "split"
    /\ chunks_with_overlap' = AddOverlap(raw_chunks, config.chunk_overlap)
    /\ pc' = "overlap"
    /\ UNCHANGED <<document, config, env, tokenizer, raw_chunks, chunks,
                   at_position, headings_found, count_vars, batch_vars, threads, services>>

\* chunker.chunk_document(document)
ChunkDocument ==
    /\ pc = "idle"
    /\ LET call == ChunkDocumentCall(document, config, tokenizer, tiktoken_installed,
                                     encoding_loads, clock)
       IN  IF call.raised
           THEN /\ pc' = "raised"
                /\ UNCHANGED <<tokenizer, raw_chunks, chunks_with_overlap, chunks>>
           ELSE /\ tokenizer' = call.tokenizer
                /\ raw_chunks' = call.raw_chunks
                /\ chunks_with_overlap' = call.chunks_with_overlap
                /\ chunks' = call.chunks
                /\ pc' = "done"
    /\ UNCHANGED <<document, config, env, at_position, headings_found, count_vars,
                   batch_vars, threads, services>>

Next == CallSplitBySeparators \/ CallAddOverlap \/ ChunkDocument

Spec == Init /\ [][Next]_vars

(***************************************************************************)
(* A second state machine: _extract_heading_at_position called directly on *)
(* a text of heading lines, at the start of any line or at the end         *)
(***************************************************************************)
\* numbers of hashes the heading lines are drawn from; 7 hashes are no heading
HashCounts == {1, 2, 3, 6, 7}

\* the i-th line carries the i-th title, so that every title names its line
Titles == <<"a", "b", "c", "d", "e", "f", "g", "h">>

HeadingLine(hashes, i) == [k \in 1..hashes |-> "#"] \o <<SP, Titles[i]>>

HeadingTexts ==
    {Join([i \in 1..Len(hs) |-> HeadingLine(hs[i], i)], <<NL>>) :
        hs \in UNION {[1..n -> HashCounts] : n \in 0..MaxHeadLines}}

\* offsets of the line starts of a text, and its length
LineStarts(text) ==
    {0, Len(text)} \cup {p \in 1..Len(text) : text[p] = NL}

InitHeading ==
    /\ document \in [id : {"doc1"}, content : HeadingTexts]
    /\ at_position \in LineStarts(document.content)
    /\ config = [chunk_size |-> 1, chunk_overlap |-> 0, preserve_headings |-> TRUE]
    /\ tiktoken_installed = FALSE
    /\ encoding_loads = FALSE
    /\ clock = 0
    /\ tokenizer = "None"
    /\ raw_chunks = <<>>
    /\ chunks_with_overlap = <<>>
    /\ chunks = <<>>
    /\ headings_found = <<>>
    /\ pc = "idle"
    /\ NothingCounted
    /\ NothingBatched
    /\ threads = <<>>
    /\ ServicesUnused

\* chunker._extract_heading_at_position(text, position)
CallExtractHeading ==
    /\ pc = "idle"
    /\ headings_found' = ExtractHeadingAtPosition(document.content, at_position)
    /\ pc' = "headings"
    /\ UNCHANGED <<document, config, env, tokenizer, raw_chunks,
                   chunks_with_overlap, chunks, at_position, count_vars, batch_vars,
                   threads, services>>

NextHeading == CallExtractHeading

SpecHeading == InitHeading /\ [][NextHeading]_vars

(***************************************************************************)
(* A third state machine: _count_tokens called again and again on one      *)
(* Chunker while packages are installed and removed between the calls      *)
(***************************************************************************)
\* the states of the tokenizer library: absent, installed with an encoding
\* that loads, installed with an encoding that fails to load
Environments ==
    {e \in [installed : BOOLEAN, loads : BOOLEAN] : e.loads => e.installed}

InitTokenizer ==
    /\ document = [id |-> "doc1", content |-> <<>>]
    /\ config = [chunk_size |-> 1, chunk_overlap |-> 0, preserve_headings |-> TRUE]
    /\ \E e \in Environments :
          tiktoken_installed = e.installed /\ encoding_loads = e.loads
    /\ clock = 0
    /\ tokenizer = "None"
    /\ raw_chunks = <<>>
    /\ chunks_with_overlap = <<>>
    /\ chunks = <<>>
    /\ at_position = 0
    /\ headings_found = <<>>
    /\ pc = "idle"
    /\ NothingCounted
    /\ NothingBatched
    /\ threads = <<>>
    /\ ServicesUnused

\* chunker._count_tokens(text), called directly
CallCountTokens ==
    /\ calls < MaxCalls
    /\ calls' = calls + 1
    /\ \E text \in ParaShapes \cup {<<>>} :
          /\ counted_text' = text
          /\ IF GetTokenizerRaises(tokenizer, tiktoken_installed, encoding_loads)
             THEN /\ pc' = "raised"
                  /\ UNCHANGED <<tokenizer, token_count, used_strategy, first_strategy,
                                 load_count>>
             ELSE LET tok == GetTokenizer(tokenizer, tiktoken_installed)
                  IN  /\ tokenizer' = tok
                      /\ load_count' = IF EncodingLoaded(tokenizer, tiktoken_installed,
                                                         encoding_loads)
                                       THEN load_count + 1 ELSE load_count
                      /\ first_strategy' = IF first_strategy = "None" THEN tok
                                           ELSE first_strategy
                      /\ used_strategy' = tok
                      /\ token_count' = CountTokens(tok, text)
                      /\ pc' = "counted"
    /\ UNCHANGED <<document, config, env, raw_chunks, chunks_with_overlap, chunks,
                   at_position, headings_found, batch_vars, threads, services>>

\* between two calls tiktoken is installed or removed, or its encoding file
\* becomes available or unavailable
EnvironmentChanges ==
    /\ \E e \in Environments :
          /\ <<e.installed, e.loads>> # <<tiktoken_installed, encoding_loads>>
          /\ tiktoken_installed' = e.installed
          /\ encoding_loads' = e.loads
    /\ UNCHANGED <<document, config, clock, tokenizer, raw_chunks, chunks_with_overlap,
                   chunks, at_position, headings_found, pc, count_vars, batch_vars,
                   threads, services>>

NextTokenizer == CallCountTokens \/ EnvironmentChanges

SpecTokenizer == InitTokenizer /\ [][NextTokenizer]_vars

(***************************************************************************)
(* A fourth state machine: chunk_documents called on a list of documents   *)
(***************************************************************************)
DocumentIds == {"doc1", "doc2"}

\* the contents of the documents of a batch
BatchContents ==
    { <<>>,
      <<SP>>,
      <<"a">>,
      <<"a", ".", SP, "b", ".", SP, "a", ".", SP>>,
      Join(<< <<"#", SP, "a">>, <<"b", SP, "a">> >>, PARA_SEP),
      Join(<< <<"#", SP, "a">>,
              <<"[", "C", "o", "n", "t", "e", "x", "t", ":", SP, "a", "]">>,
              <<"b">> >>, PARA_SEP) }

BatchDocuments == [id : DocumentIds, content : BatchContents]

\* lists of at most MaxDocs documents; a document id names one document, so
\* two entries with the same id are the same document
Batches ==
    {docs \in UNION {[1..n -> BatchDocuments] : n \in 0..MaxDocs} :
        \A i, j \in 1..Len(docs) : docs[i].id = docs[j].id => docs[i] = docs[j]}

BatchConfigs ==
    [chunk_size        : {1, 3},
     chunk_overlap     : {0, 1},
     preserve_headings : BOOLEAN]

InitBatch ==
    /\ documents \in Batches
    /\ config \in BatchConfigs
    /\ \E e \in Environments :
          tiktoken_installed = e.installed /\ encoding_loads = e.loads
    /\ clock = 0
    /\ tokenizer = "None"
    /\ document = [id |-> "doc1", content |-> <<>>]
    /\ raw_chunks = <<>>
    /\ chunks_with_overlap = <<>>
    /\ chunks = <<>>
    /\ at_position = 0
    /\ headings_found = <<>>
    /\ pc = "idle"
    /\ NothingCounted
    /\ all_chunks = <<>>
    /\ call_results = <<>>
    /\ call_times = <<>>
    /\ threads = <<>>
    /\ ServicesUnused

\* chunker.chunk_documents(documents); the clock stands still during the
\* call (tick = 0) or advances by one between two documents (tick = 1)
ChunkDocuments ==
    /\ pc = "idle"
    /\ \E tick \in {0, 1} :
          LET times  == [i \in 1..Len(documents) |-> clock + (i - 1) * tick]
              result == ChunkDocumentsLoop(documents, 1, config, tokenizer,
                                           tiktoken_installed, encoding_loads, times,
                                           [all_chunks |-> <<>>, returned |-> <<>>])
          IN  /\ call_times' = SubSeq(times, 1, Len(result.returned)
                                                + (IF result.raised THEN 1 ELSE 0))
              /\ clock' = IF times = <<>> THEN clock ELSE times[Len(times)]
              /\ tokenizer' = result.tokenizer
              /\ call_results' = result.returned
              /\ IF result.raised
                 THEN pc' = "raised" /\ UNCHANGED all_chunks
                 ELSE pc' = "batch" /\ all_chunks' = result.all_chunks
    /\ UNCHANGED <<document, config, tiktoken_installed, encoding_loads, documents,
                   raw_chunks, chunks_with_overlap, chunks, at_position,
                   headings_found, count_vars, threads, services>>

NextBatch == ChunkDocuments

SpecBatch == InitBatch /\ [][NextBatch]_vars

(***************************************************************************)
(* A fifth state machine: two threads call chunk_document on one Chunker,  *)
(* each on its own document.  A thread's steps are its reads and writes of *)
(* self._tokenizer; what it does between two of them touches nothing that  *)
(* is shared and belongs to the step before                                *)
(***************************************************************************)
ThreadIds == {"doc1", "doc2"}

\* the contents of the threads' documents
ThreadContents ==
    { <<SP>>,
      <<"a">>,
      Join(<< <<"b", SP, "a">>, <<"a">> >>, PARA_SEP),
      Join(<< <<"#", SP, "a">>, <<"a", ".", SP, "b", ".", SP, "a", ".", SP>> >>,
           PARA_SEP) }

\* the number of _count_tokens calls chunk_document makes at least: one for
\* each paragraph that is not blank
CountTokensCalls(text) ==
    Cardinality({i \in 1..Len(SplitParagraphs(text)) :
                    Strip(SplitParagraphs(text)[i]) # <<>>})

InitShared ==
    /\ threads \in [ThreadIds -> [pc         : {"idle"},
                                  content    : ThreadContents,
                                  seen       : {"None"},
                                  pending    : {<<>>},
                                  stores     : {0},
                                  used       : {<<>>},
                                  calls_left : {0},
                                  result     : {<<>>}]]
    /\ config \in BatchConfigs
    /\ \E e \in Environments :
          tiktoken_installed = e.installed /\ encoding_loads = e.loads
    /\ clock = 0
    /\ tokenizer = "None"
    /\ document = [id |-> "doc1", content |-> <<>>]
    /\ raw_chunks = <<>>
    /\ chunks_with_overlap = <<>>
    /\ chunks = <<>>
    /\ at_position = 0
    /\ headings_found = <<>>
    /\ pc = "idle"
    /\ NothingCounted
    /\ NothingBatched
    /\ ServicesUnused

\* what the threads leave alone
unshared == <<document, config, env, raw_chunks, chunks_with_overlap, chunks,
              at_position, headings_found, pc, count_vars, batch_vars, services>>

\* thread t enters chunk_document: the blank check, which returns [] at once
ThreadStarts(t) ==
    /\ threads[t].pc = "idle"
    /\ threads' = [threads EXCEPT ![t] =
          IF IsBlank(@.content)
          THEN [@ EXCEPT !.pc = "done"]
          ELSE [@ EXCEPT !.pc = "check",
                         !.calls_left = CountTokensCalls(threads[t].content)]]
    /\ UNCHANGED <<tokenizer, unshared>>

\* _get_tokenizer: thread t evaluates "self._tokenizer is None"; if it is,
\* the thread goes on to import tiktoken and load the encoding, which raises
\* or leaves it with the value to assign
ThreadChecks(t) ==
    /\ threads[t].pc = "check"
    /\ threads' = [threads EXCEPT ![t] =
          IF tokenizer # "None"
          THEN [@ EXCEPT !.pc = "return", !.seen = tokenizer]
          ELSE IF GetTokenizerRaises(tokenizer, tiktoken_installed, encoding_loads)
          THEN [@ EXCEPT !.pc = "raised", !.seen = tokenizer]
          ELSE [@ EXCEPT !.pc = "store", !.seen = tokenizer,
                         !.pending = TokenizerWrites(tiktoken_installed)]]
    /\ UNCHANGED <<tokenizer, unshared>>

\* _get_tokenizer: thread t assigns self._tokenizer
ThreadStores(t) ==
    /\ threads[t].pc = "store"
    /\ tokenizer' = Head(threads[t].pending)
    /\ threads' = [threads EXCEPT ![t] =
          [@ EXCEPT !.pending = Tail(@),
                    !.stores = @ + 1,
                    !.pc = IF Tail(threads[t].pending) = <<>> THEN "return"
                           ELSE "store"]]
    /\ UNCHANGED unshared

\* _get_tokenizer: thread t evaluates "return self._tokenizer", and
\* _count_tokens counts with what it got; after its last count the thread
\* returns from chunk_document with the chunks its counts gave
ThreadCounts(t) ==
    /\ threads[t].pc = "return"
    /\ threads' = [threads EXCEPT ![t] =
          LET used == Append(@.used, tokenizer)
          IN  IF @.calls_left > 1
              THEN [@ EXCEPT !.pc = "check", !.used = used,
                             !.calls_left = @ - 1]
              ELSE [@ EXCEPT !.pc = "done", !.used = used, !.calls_left = 0,
                             !.result =
                                 ChunkDocumentCall(
                                     [id |-> t, content |-> threads[t].content],
                                     config, used[1], tiktoken_installed,
                                     encoding_loads, clock).chunks]]
    /\ UNCHANGED <<tokenizer, unshared>>

NextShared ==
    \/ \E t \in ThreadIds : ThreadStarts(t)
    \/ \E t \in ThreadIds : ThreadChecks(t)
    \/ \E t \in ThreadIds : ThreadStores(t)
    \/ \E t \in ThreadIds : ThreadCounts(t)

SpecShared == InitShared /\ [][NextShared]_vars

(***************************************************************************)
(* The chunker is not used by the specifications below                     *)
(***************************************************************************)
ChunkerUnused ==
    /\ document = [id |-> "doc1", content |-> <<>>]
    /\ config = [chunk_size |-> 1, chunk_overlap |-> 0, preserve_headings |-> TRUE]
    /\ tiktoken_installed = FALSE
    /\ encoding_loads = FALSE
    /\ clock = 0
    /\ tokenizer = "None"
    /\ raw_chunks = <<>>
    /\ chunks_with_overlap = <<>>
    /\ chunks = <<>>
    /\ at_position = 0
    /\ headings_found = <<>>
    /\ pc = "idle"
    /\ NothingCounted
    /\ NothingBatched
    /\ threads = <<>>

\* the elements of a list
Elements(list) == {list[i] : i \in 1..Len(list)}

\* the list holds no value twice
NoDuplicate(list) == \A i, j \in 1..Len(list) : list[i] = list[j] => i = j

(***************************************************************************)
(* Checkpointing (storage/checkpoint.py): a CheckpointManager, the          *)
(* ScrapingProgress it holds in memory and the progress.json of its         *)
(* directory.  checkpoint is a record:                                      *)
(*   progress  self._progress: <<>> for None, <<p>> for a ScrapingProgress  *)
(*   file      progress.json: <<>> when absent, <<"torn">> when it is not   *)
(*             valid JSON, or the JSON text of a progress                   *)
(*   call      the last call made: its name, its argument and how it ended  *)
(*   now       what datetime.utcnow() returns, one tick per call            *)
(***************************************************************************)
MaxOps == 4

Urls == {"u1", "u2"}
Sections == {"s1"}
TotalResources == {2}

\* how checkpoint_file.write_text ends: the text is written, the file cannot
\* be opened, or the file is truncated and the write fails part-way
Writes == {"written", "refused", "torn"}

\* ScrapingProgress.new(total_resources)
ProgressNew(total_resources, utcnow) ==
    [started_at      |-> utcnow,
     last_updated    |-> utcnow,
     total_resources |-> total_resources,
     processed_urls  |-> <<>>,
     failed_urls     |-> <<>>,
     current_section |-> "",
     documents_saved |-> 0]

\* json.dumps(asdict(progress), indent=2) and json.loads of such a text
JsonDumps(data) == <<"json", data>>
JsonLoads(text) == text[2]

\* a progress.json that is missing, and one that does not parse
Absent == <<>>
Torn == <<"torn">>

\* Optional[ScrapingProgress]
None == <<>>
Some(progress) == <<progress>>

\* CheckpointManager.save: the progress is stamped and becomes the manager's
\* progress before the file is written; a failed write raises CheckpointError
Save(m, progress, write, utcnow) ==
    LET stamped == [progress EXCEPT !.last_updated = utcnow]
    IN  [m EXCEPT !.progress = Some(stamped),
                  !.file = CASE write = "written" -> JsonDumps(stamped)
                             [] write = "refused" -> m.file
                             [] write = "torn"    -> Torn,
                  !.call[3] = IF write = "written" THEN "saved" ELSE "raised"]

\* CheckpointManager.start_new
StartNew(m, total_resources, write, utcnow) ==
    Save(m, ProgressNew(total_resources, utcnow), write, utcnow)

\* the progress a mark_* or update_section call works on
ProgressOrNew(m, utcnow) ==
    IF m.progress = None THEN ProgressNew(0, utcnow) ELSE m.progress[1]

\* mark_processed that appends without looking
MarkProcessedAppending(m, url, write, utcnow) ==
    LET p == ProgressOrNew(m, utcnow)
    IN  Save(m, [p EXCEPT !.processed_urls = Append(@, url),
                          !.documents_saved = @ + 1], write, utcnow)

\* CheckpointManager.mark_processed
MarkProcessed(m, url, write, utcnow) ==
    LET p == ProgressOrNew(m, utcnow)
    IN  IF url \notin Elements(p.processed_urls)
        THEN Save(m, [p EXCEPT !.processed_urls = Append(@, url),
                               !.documents_saved = @ + 1], write, utcnow)
        ELSE [m EXCEPT !.progress = Some(p), !.call[3] = "unchanged"]

\* CheckpointManager.mark_failed
MarkFailed(m, url, write, utcnow) ==
    LET p == ProgressOrNew(m, utcnow)
    IN  IF url \notin Elements(p.failed_urls)
        THEN Save(m, [p EXCEPT !.failed_urls = Append(@, url)], write, utcnow)
        ELSE [m EXCEPT !.progress = Some(p), !.call[3] = "unchanged"]

\* CheckpointManager.is_processed
IsProcessed(m, url) ==
    m.progress # None /\ url \in Elements(m.progress[1].processed_urls)

\* CheckpointManager.update_section
UpdateSection(m, section, write, utcnow) ==
    Save(m, [ProgressOrNew(m, utcnow) EXCEPT !.current_section = section],
         write, utcnow)

\* what CheckpointManager.load returns for a progress.json: None when the
\* file is absent or does not parse
Loaded(file) ==
    IF file \in {Absent, Torn} THEN None ELSE Some(JsonLoads(file))

\* CheckpointManager.load: _progress is assigned only when the file parsed
Load(m) ==
    [m EXCEPT !.progress = IF Loaded(m.file) = None THEN @ ELSE Loaded(m.file),
              !.call[3] = IF Loaded(m.file) = None THEN "nothing" ELSE "loaded"]

\* CheckpointManager.clear
Clear(m) == [m EXCEPT !.progress = None, !.file = Absent, !.call[3] = "cleared"]

\* CheckpointManager(checkpoint_dir) on a directory without progress.json
InitCheckpoint ==
    /\ ChunkerUnused
    /\ rate_limiter = <<>>
    /\ sso = <<>>
    /\ scrape_run = <<>>
    /\ checkpoint = [progress |-> None, file |-> Absent,
                     call |-> <<"__init__", "", "constructed">>, now |-> 0]

\* a manager as a call finds it: the clock has moved and the call is noted
CalledOn(m, name, arg) == [m EXCEPT !.call = <<name, arg, "running">>, !.now = @ + 1]

Called(name, arg) == CalledOn(checkpoint, name, arg)

CallStartNew ==
    /\ checkpoint.now < MaxOps
    /\ \E total \in TotalResources, write \in Writes :
          checkpoint' = StartNew(Called("start_new", total), total, write,
                                 checkpoint.now + 1)
    /\ UNCHANGED <<chunker_vars, rate_limiter, sso, scrape_run>>

CallMarkProcessed ==
    /\ checkpoint.now < MaxOps
    /\ \E url \in Urls, write \in Writes :
          checkpoint' = MarkProcessed(Called("mark_processed", url), url, write,
                                      checkpoint.now + 1)
    /\ UNCHANGED <<chunker_vars, rate_limiter, sso, scrape_run>>

CallMarkFailed ==
    /\ checkpoint.now < MaxOps
    /\ \E url \in Urls, write \in Writes :
          checkpoint' = MarkFailed(Called("mark_failed", url), url, write,
                                   checkpoint.now + 1)
    /\ UNCHANGED <<chunker_vars, rate_limiter, sso, scrape_run>>

CallUpdateSection ==
    /\ checkpoint.now < MaxOps
    /\ \E section \in Sections, write \in Writes :
          checkpoint' = UpdateSection(Called("update_section", section), section,
                                      write, checkpoint.now + 1)
    /\ UNCHANGED <<chunker_vars, rate_limiter, sso, scrape_run>>

CallLoad ==
    /\ checkpoint.now < MaxOps
    /\ checkpoint' = Load(Called("load", ""))
    /\ UNCHANGED <<chunker_vars, rate_limiter, sso, scrape_run>>

CallClear ==
    /\ checkpoint.now < MaxOps
    /\ checkpoint' = Clear(Called("clear", ""))
    /\ UNCHANGED <<chunker_vars, rate_limiter, sso, scrape_run>>

\* another CheckpointManager is constructed on the same directory (a later
\* run of the program): its _progress is None, progress.json is as it was
NewManager ==
    /\ checkpoint.now < MaxOps
    /\ checkpoint' = [Called("__init__", "") EXCEPT !.progress = None,
                                                     !.call[3] = "constructed"]
    /\ UNCHANGED <<chunker_vars, rate_limiter, sso, scrape_run>>

NextCheckpoint ==
    \/ CallStartNew
    \/ CallMarkProcessed
    \/ CallMarkFailed
    \/ CallUpdateSection
    \/ CallLoad
    \/ CallClear
    \/ NewManager

SpecCheckpoint == InitCheckpoint /\ [][NextCheckpoint]_vars

(***************************************************************************)
(* The scrape command (main.py): runs of "python main.py scrape [--resume]" *)
(* on one data directory, one after another.  checkpoint holds the run's    *)
(* CheckpointManager and progress.json; scrape_run is a record:             *)
(*   pc               "idle" between runs, "loop" inside the resource loop  *)
(*   resume           the --resume flag of the run                          *)
(*   site             the course page of the runs                           *)
(*   resources        what navigator.discover_resources returned            *)
(*   i                the resource the loop is at (1-based)                 *)
(*   documents        the run's local list, a document written as its URL   *)
(*   documents_jsonl  the file export_documents writes: <<>> when absent,   *)
(*                    else <<documents>>                                    *)
(*   log              the scrape_page / process_pdf calls of the run        *)
(*   runs             the number of runs started                            *)
(*   ended            how the last run ended                                *)
(* The clock of the checkpoint's time stamps is read once per run.          *)
(*   all_resumed      every run after the first was given --resume          *)
(*   caught           the except clause ran for the resource before i       *)
(*   disk_failed      a checkpoint write of the run has failed              *)
(*   known_at_start   processed_urls when the run's loop began              *)
(***************************************************************************)
MaxRuns == 2

\* the course pages the runs are made on: what discover_resources finds is
\* a list of unique URLs, each with the type its URL pattern gives
Sites ==
    { << [url |-> "p1", resource_type |-> "page"],
         [url |-> "b1", resource_type |-> "book"] >>,
      << [url |-> "r1", resource_type |-> "resource"],
         [url |-> "f1", resource_type |-> "folder"] >>,
      << [url |-> "l1", resource_type |-> "url"],
         [url |-> "p1", resource_type |-> "page"] >> }

\* the table of contents of the book, as discover_book_chapters lists it
Chapters == << [url |-> "c1", resource_type |-> "book_chapter"],
               [url |-> "c2", resource_type |-> "book_chapter"] >>

\* the files of the folder, as discover_folder_contents lists them
FolderFiles == << [url |-> "d1", resource_type |-> "pdf"] >>

\* the URLs scrape_page or process_pdf is asked for while a resource is handled
Fetchable(resource) ==
    CASE resource.resource_type \in {"page", "resource", "pdf"} -> {resource.url}
      [] resource.resource_type = "book" -> {Chapters[k].url : k \in 1..Len(Chapters)}
      [] resource.resource_type = "folder" ->
             {FolderFiles[k].url : k \in 1..Len(FolderFiles)}
      [] OTHER -> {}

\* what a fetch gives: a Document, or None (the scrapers catch every error)
Fetches == {"doc", "none"}

\* what else happens while one resource is handled: nothing; the request of
\* discover_book_chapters / discover_folder_contents fails and [] is
\* returned; or a call inside the try block raises (the parsing of a listing,
\* html_cleaner.clean, text_normalizer.normalize)
Hazards(resource) ==
    CASE resource.resource_type \in {"page", "resource", "pdf"} -> {"nothing", "raises"}
      [] resource.resource_type \in {"book", "folder"} ->
             {"nothing", "unreachable", "raises"}
      [] OTHER -> {"nothing"}

\* how the checkpoint writes of one loop iteration end
DiskPlans == {"all_written", "first_refused", "all_refused"}

\* the outcome of the n-th save of an iteration
WriteOutcome(plan, n) ==
    IF plan = "all_written" \/ (plan = "first_refused" /\ n > 1)
    THEN "written" ELSE "refused"

\* the handler main.py calls for an entry of a book or a folder
HandlerOf(item) == IF item.resource_type = "pdf" THEN "process_pdf" ELSE "scrape_page"

\* page_scraper.scrape_page(url, ...) / pdf_handler.process_pdf(url, ...) is
\* called: the call is logged with what the checkpoint held at that moment
Fetch(st, handler, url, web) ==
    [st EXCEPT !.log = Append(@, [url   |-> url,
                                  by    |-> handler,
                                  known |-> IsProcessed(st.m, url),
                                  got   |-> web[url] = "doc"])]

\* checkpoint.mark_processed(url) / checkpoint.mark_failed(url) inside the
\* loop; a CheckpointError is noted in raised
Mark(st, kind, url, plan) ==
    LET write == WriteOutcome(plan, st.saves + 1)
        m     == IF kind = "processed"
                 THEN MarkProcessed([st.m EXCEPT !.call = <<"mark_processed", url,
                                                           "running">>],
                                    url, write, st.m.now)
                 ELSE MarkFailed([st.m EXCEPT !.call = <<"mark_failed", url,
                                                        "running">>],
                                 url, write, st.m.now)
    IN  [st EXCEPT !.m = m,
                   !.saves = IF m.call[3] = "unchanged" THEN @ ELSE @ + 1,
                   !.raised = m.call[3] = "raised"]

\* the entry loops that fetch without asking the checkpoint
RECURSIVE ProcessItemsUnchecked(_, _, _, _, _)
ProcessItemsUnchecked(st, items, k, web, plan) ==
    IF k > Len(items) \/ st.raised THEN st
    ELSE LET item    == items[k]
             fetched == Fetch(st, HandlerOf(item), item.url, web)
         IN  ProcessItemsUnchecked(
                 IF web[item.url] = "doc"
                 THEN Mark([fetched EXCEPT !.documents = Append(@, item.url)],
                           "processed", item.url, plan)
                 ELSE fetched,
                 items, k + 1, web, plan)

\* "for chapter in chapters" / "for file_info in files": an entry the
\* checkpoint holds is passed over, an entry that gives a document is
\* appended to documents and marked processed
RECURSIVE ProcessItems(_, _, _, _, _)
ProcessItems(st, items, k, web, plan) ==
    IF k > Len(items) \/ st.raised THEN st
    ELSE LET item    == items[k]
             fetched == Fetch(st, HandlerOf(item), item.url, web)
         IN  IF IsProcessed(st.m, item.url)
             THEN ProcessItems(st, items, k + 1, web, plan)
             ELSE ProcessItems(
                      IF web[item.url] = "doc"
                      THEN Mark([fetched EXCEPT !.documents = Append(@, item.url)],
                                "processed", item.url, plan)
                      ELSE fetched,
                      items, k + 1, web, plan)

\* the branches on resource.resource_type: st.doc tells whether doc is set
Dispatch(st, resource, web, hazard, plan) ==
    CASE resource.resource_type = "page" ->
             [Fetch(st, "scrape_page", resource.url, web)
                 EXCEPT !.doc = web[resource.url] = "doc"]
      [] resource.resource_type \in {"resource", "pdf"} ->
             [Fetch(st, "process_pdf", resource.url, web)
                 EXCEPT !.doc = web[resource.url] = "doc"]
      [] resource.resource_type = "book" ->
             CASE hazard = "raises"      -> [st EXCEPT !.raised = TRUE]
               [] hazard = "unreachable" -> st
               [] OTHER -> ProcessItems(st, Chapters, 1, web, plan)
      [] resource.resource_type = "folder" ->
             CASE hazard = "raises"      -> [st EXCEPT !.raised = TRUE]
               [] hazard = "unreachable" -> st
               [] OTHER -> ProcessItems(st, FolderFiles, 1, web, plan)
      [] OTHER -> st

\* the "if doc: ... else: mark_failed" at the end of the try block
Conclude(st, resource, hazard, plan) ==
    IF st.raised THEN st
    ELSE IF st.doc
         THEN IF hazard = "raises"
              THEN [st EXCEPT !.raised = TRUE]
              ELSE Mark([st EXCEPT !.documents = Append(@, resource.url)],
                        "processed", resource.url, plan)
         ELSE Mark(st, "failed", resource.url, plan)

\* an except clause that logs the error and marks nothing
RecoverUnmarked(st, resource, plan) ==
    IF st.raised THEN [st EXCEPT !.raised = FALSE, !.caught = TRUE] ELSE st

\* the except clause: the resource is marked failed; a CheckpointError of
\* this mark_failed leaves the loop and the command
Recover(st, resource, plan) ==
    IF st.raised
    THEN Mark([st EXCEPT !.caught = TRUE], "failed", resource.url, plan)
    ELSE st

\* one iteration of "for resource in resources" for a resource that is not
\* skipped
HandleResource(st, resource, web, hazard, plan) ==
    Recover(Conclude(Dispatch(st, resource, web, hazard, plan), resource, hazard,
                     plan),
            resource, plan)

\* no run has been made on the data directory
InitScrape ==
    /\ ChunkerUnused
    /\ rate_limiter = <<>>
    /\ sso = <<>>
    /\ checkpoint = [progress |-> None, file |-> Absent,
                     call |-> <<"__init__", "", "constructed">>, now |-> 0]
    /\ \E site \in Sites :
        scrape_run = [site |-> site,
                     pc |-> "idle", resume |-> FALSE, resources |-> <<>>, i |-> 0,
                     documents |-> <<>>, documents_jsonl |-> <<>>, log |-> <<>>,
                     runs |-> 0, ended |-> "never", all_resumed |-> TRUE,
                     caught |-> FALSE,
                     disk_failed |-> FALSE, known_at_start |-> {}]

\* a run that ends before its loop: get_valid_session raises,
\* discover_resources raises (both sys.exit(1)), or start_new raises
StartFails ==
    /\ scrape_run.pc = "idle"
    /\ scrape_run.runs < MaxRuns
    /\ \E resume \in BOOLEAN, step \in {"session", "discover", "start_new"} :
          LET fresh  == [CalledOn(checkpoint, "__init__", "")
                            EXCEPT !.progress = None, !.call[3] = "constructed"]
              loaded == IF resume /\ step # "session"
                        THEN Load([fresh EXCEPT !.call = <<"load", "", "running">>])
                        ELSE fresh
          IN  /\ step = "start_new" => ~(resume /\ Loaded(checkpoint.file) # None)
              /\ checkpoint' =
                     IF step = "start_new"
                     THEN StartNew([loaded EXCEPT !.call = <<"start_new", Len(scrape_run.site), "running">>],
                                   Len(scrape_run.site), "refused", loaded.now)
                     ELSE loaded
              /\ scrape_run' =
                     [scrape_run EXCEPT !.runs = @ + 1,
                                        !.resume = resume,
                                        !.ended = step,
                                        !.caught = FALSE,
                                        !.disk_failed = (step = "start_new"),
                                        !.all_resumed = @ /\ (scrape_run.runs = 0 \/ resume)]
    /\ UNCHANGED <<chunker_vars, rate_limiter, sso>>

\* a run reaches its loop: the session is valid, the checkpoint is loaded
\* under --resume, the resources are discovered, and without a loaded
\* progress a new one is started and saved
StartRun ==
    /\ scrape_run.pc = "idle"
    /\ scrape_run.runs < MaxRuns
    /\ \E resume \in BOOLEAN :
          LET fresh   == [CalledOn(checkpoint, "__init__", "")
                             EXCEPT !.progress = None, !.call[3] = "constructed"]
              loaded  == IF resume
                         THEN Load([fresh EXCEPT !.call = <<"load", "", "running">>])
                         ELSE fresh
              resumed == resume /\ Loaded(checkpoint.file) # None
              started == IF resumed THEN loaded
                         ELSE StartNew([loaded EXCEPT !.call = <<"start_new", Len(scrape_run.site),
                                                               "running">>],
                                       Len(scrape_run.site), "written", loaded.now)
          IN  /\ checkpoint' = started
              /\ scrape_run' =
                     [scrape_run EXCEPT
                         !.pc = "loop",
                         !.resume = resume,
                         !.resources = scrape_run.site,
                         !.i = 1,
                         !.documents = <<>>,
                         !.log = <<>>,
                         !.runs = @ + 1,
                         !.ended = "running",
                         !.caught = FALSE,
                         !.all_resumed = @ /\ (scrape_run.runs = 0 \/ resume),
                         !.disk_failed = FALSE,
                         !.known_at_start = Elements(started.progress[1].processed_urls)]
    /\ UNCHANGED <<chunker_vars, rate_limiter, sso>>

\* the loop passes over a resource the checkpoint holds
SkipResource ==
    /\ scrape_run.pc = "loop"
    /\ scrape_run.i <= Len(scrape_run.resources)
    /\ IsProcessed(checkpoint, scrape_run.resources[scrape_run.i].url)
    /\ scrape_run' = [scrape_run EXCEPT !.i = @ + 1, !.caught = FALSE]
    /\ UNCHANGED <<chunker_vars, rate_limiter, sso, checkpoint>>

\* the loop handles a resource; a CheckpointError raised by the except clause
\* ends the command without an export
ProcessResource ==
    /\ scrape_run.pc = "loop"
    /\ scrape_run.i <= Len(scrape_run.resources)
    /\ ~IsProcessed(checkpoint, scrape_run.resources[scrape_run.i].url)
    /\ \E web \in [Fetchable(scrape_run.resources[scrape_run.i]) -> Fetches],
          hazard \in Hazards(scrape_run.resources[scrape_run.i]),
          plan \in DiskPlans :
          LET st == HandleResource([m         |-> checkpoint,
                                    documents |-> scrape_run.documents,
                                    log       |-> scrape_run.log,
                                    saves     |-> 0,
                                    raised    |-> FALSE,
                                    caught    |-> FALSE,
                                    doc       |-> FALSE],
                                   scrape_run.resources[scrape_run.i], web, hazard,
                                   plan)
          IN  /\ checkpoint' = st.m
              /\ scrape_run' =
                     [scrape_run EXCEPT
                         !.pc = IF st.raised THEN "idle" ELSE "loop",
                         !.ended = IF st.raised THEN "mark_failed" ELSE @,
                         !.i = IF st.raised THEN @ ELSE @ + 1,
                         !.documents = st.documents,
                         !.log = st.log,
                         !.caught = st.caught,
                         !.disk_failed = @ \/ (st.saves > 0 /\ plan # "all_written")]
    /\ UNCHANGED <<chunker_vars, rate_limiter, sso>>

\* the loop is over: "if documents: exporter.export_documents(documents)"
\* opens documents.jsonl for writing and writes the run's documents
FinishRun ==
    /\ scrape_run.pc = "loop"
    /\ scrape_run.i > Len(scrape_run.resources)
    /\ scrape_run' =
           [scrape_run EXCEPT
               !.pc = "idle",
               !.ended = "finished",
               !.documents_jsonl = IF scrape_run.documents # <<>>
                                   THEN <<scrape_run.documents>> ELSE @]
    /\ UNCHANGED <<chunker_vars, rate_limiter, sso, checkpoint>>

\* the process is stopped inside the loop (Ctrl-C, a kill): nothing is
\* exported, progress.json is as the last save left it
Interrupted ==
    /\ scrape_run.pc = "loop"
    /\ scrape_run' = [scrape_run EXCEPT !.pc = "idle", !.ended = "interrupted"]
    /\ UNCHANGED <<chunker_vars, rate_limiter, sso, checkpoint>>

NextScrape ==
    \/ StartFails
    \/ StartRun
    \/ SkipResource
    \/ ProcessResource
    \/ FinishRun
    \/ Interrupted

SpecScrape == InitScrape /\ [][NextScrape]_vars

(***************************************************************************)
(* Authentication (auth/sso_handler.py, auth/session_manager.py): an        *)
(* SSOHandler, the browsers it starts and its cookie file.  sso is a        *)
(* record:                                                                  *)
(*   driver       self._driver: "None" or "chrome"                          *)
(*   browsers     the number of Chrome processes started and not quit       *)
(*   cookie_file  <<>> when absent, <<"unreadable">> when it does not       *)
(*                decrypt or parse, else <<"cookies", list>>                *)
(*   calls        the number of calls made on the handler                   *)
(*   call         what the last call did: its name and force_login, whether *)
(*                load_cookies ran (read), whether the session was          *)
(*                validated and found valid, whether login_interactive      *)
(*                started (login), whether a Chrome was started (created),  *)
(*                the driver.quit calls (quits), whether a success URL was  *)
(*                seen, whether save_cookies wrote (saved), and how the     *)
(*                call ended (outcome)                                      *)
(***************************************************************************)
MaxLogins == 3
MaxPolls == 2

\* the cookie lists a browser or a file gives
CookieLists == {<<>>, <<"MoodleSession">>}

\* what the browser shows when the login loop reads driver.current_url
BrowserUrls == {"login.kcl.ac.uk/sso", "keats.kcl.ac.uk/my/", "keats.kcl.ac.uk/course/"}

\* success_indicators of login_interactive
SuccessIndicators == {"keats.kcl.ac.uk/my/", "keats.kcl.ac.uk/course/"}

\* what happens around one login: how _create_driver ends (the driver is
\* returned, ChromeDriverManager().install() or webdriver.Chrome raises, or
\* execute_script raises after Chrome has started), whether driver.get
\* raises, the URLs of the successive polls (one second apart), the timeout,
\* what get_cookies gives and whether the cookie file can be written
Polled ==
    [create        : {"created"},
     get           : {"loaded"},
     urls          : [1..MaxPolls -> BrowserUrls],
     login_timeout : 1..MaxPolls,
     cookies       : CookieLists,
     write         : {"written", "raises"}]

\* a login that does not reach the polling loop is not told apart by what
\* the loop would have seen
Logins ==
    LET unpolled == CHOOSE login \in Polled : TRUE
    IN  Polled \cup {[unpolled EXCEPT !.create = "no_driver"],
                     [unpolled EXCEPT !.create = "script_fails"],
                     [unpolled EXCEPT !.get = "raises"]}

\* what session.get(check_url) gives in validate_session
Responses == {"200", "redirect_to_login", "redirect_elsewhere", "500", "raises"}

\* SessionManager.load_cookies: <<>> for None, <<list>> for a list
LoadCookies(file) ==
    IF file = <<>> \/ file = <<"unreadable">> THEN <<>> ELSE <<file[2]>>

\* the truth value of "if cookies:"
Truthy(cookies) == cookies # <<>> /\ cookies[1] # <<>>

\* SessionManager.validate_session
ValidateSession(response) == response = "200"

\* the while loop of login_interactive: logged_in
LoggedIn(urls, login_timeout) ==
    \E k \in 1..login_timeout : urls[k] \in SuccessIndicators

\* a call as it begins
Begun(h, name, force_login) ==
    [h EXCEPT !.calls = @ + 1,
              !.call = [name |-> name, force_login |-> force_login, read |-> FALSE,
                        validated |-> FALSE, valid |-> FALSE, login |-> FALSE,
                        created |-> FALSE, quits |-> 0, success_seen |-> FALSE,
                        saved |-> FALSE, outcome |-> "running"]]

\* the finally clause of login_interactive
Finally(h) ==
    [h EXCEPT !.driver = "None", !.browsers = @ - 1, !.call.quits = @ + 1]

\* SSOHandler.login_interactive: _create_driver runs before the try block;
\* inside it every exception becomes an AuthenticationError and the finally
\* clause quits the driver
LoginInteractive(h, login) ==
    LET started == [h EXCEPT !.call.login = TRUE]
        created == [started EXCEPT !.driver = "chrome", !.browsers = @ + 1,
                                   !.call.created = TRUE]
        seen    == [created EXCEPT !.call.success_seen = TRUE]
    IN  CASE login.create = "no_driver" ->
                 [started EXCEPT !.call.outcome = "WebDriverException"]
          [] login.create = "script_fails" ->
                 [started EXCEPT !.browsers = @ + 1, !.call.created = TRUE,
                                 !.call.outcome = "WebDriverException"]
          [] login.get = "raises" \/ ~LoggedIn(login.urls, login.login_timeout) ->
                 Finally([created EXCEPT !.call.outcome = "AuthenticationError"])
          [] login.write = "raises" ->
                 Finally([seen EXCEPT !.call.outcome = "AuthenticationError"])
          [] OTHER ->
                 Finally([seen EXCEPT !.cookie_file = <<"cookies", login.cookies>>,
                                      !.call.saved = TRUE,
                                      !.call.outcome = "returned"])

\* get_valid_session that reads the cookie file whatever force_login is
GetValidSessionEager(h, force_login, response, login) ==
    LET read      == [h EXCEPT !.call.read = TRUE]
        cookies   == LoadCookies(h.cookie_file)
        validated == [read EXCEPT !.call.validated = TRUE,
                                  !.call.valid = ValidateSession(response)]
    IN  IF Truthy(cookies) /\ ~force_login
        THEN IF ValidateSession(response)
             THEN [validated EXCEPT !.call.outcome = "returned"]
             ELSE LoginInteractive(validated, login)
        ELSE LoginInteractive(read, login)

\* SSOHandler.get_valid_session
GetValidSession(h, force_login, response, login) ==
    LET read      == [h EXCEPT !.call.read = TRUE]
        cookies   == LoadCookies(h.cookie_file)
        validated == [read EXCEPT !.call.validated = TRUE,
                                  !.call.valid = ValidateSession(response)]
    IN  IF force_login THEN LoginInteractive(h, login)
        ELSE IF Truthy(cookies)
             THEN IF ValidateSession(response)
                  THEN [validated EXCEPT !.call.outcome = "returned"]
                  ELSE LoginInteractive(validated, login)
             ELSE LoginInteractive(read, login)

\* SSOHandler(config) with no cookie file yet
InitSSO ==
    /\ ChunkerUnused
    /\ rate_limiter = <<>>
    /\ checkpoint = <<>>
    /\ scrape_run = <<>>
    /\ sso = [Begun([driver |-> "None", browsers |-> 0, cookie_file |-> <<>>,
                     calls |-> 0, call |-> <<>>], "__init__", FALSE)
                 EXCEPT !.calls = 0, !.call.outcome = "returned"]

CallGetValidSession ==
    /\ sso.calls < MaxLogins
    /\ \E force_login \in BOOLEAN, response \in Responses, login \in Logins :
          sso' = GetValidSession(Begun(sso, "get_valid_session", force_login),
                                 force_login, response, login)
    /\ UNCHANGED <<chunker_vars, rate_limiter, checkpoint, scrape_run>>

CallLoginInteractive ==
    /\ sso.calls < MaxLogins
    /\ \E login \in Logins :
          sso' = LoginInteractive(Begun(sso, "login_interactive", FALSE), login)
    /\ UNCHANGED <<chunker_vars, rate_limiter, checkpoint, scrape_run>>

\* SSOHandler.logout: session_manager.clear_cookies()
CallLogout ==
    /\ sso.calls < MaxLogins
    /\ sso' = [Begun(sso, "logout", FALSE) EXCEPT !.cookie_file = <<>>,
                                                  !.call.outcome = "returned"]
    /\ UNCHANGED <<chunker_vars, rate_limiter, checkpoint, scrape_run>>

\* between two calls the cookie file stops being readable: it was written
\* under another encryption key, or it was damaged
CookieFileSpoiled ==
    /\ sso.cookie_file # <<>>
    /\ sso.cookie_file # <<"unreadable">>
    /\ sso' = [sso EXCEPT !.cookie_file = <<"unreadable">>]
    /\ UNCHANGED <<chunker_vars, rate_limiter, checkpoint, scrape_run>>

NextSSO ==
    \/ CallGetValidSession
    \/ CallLoginInteractive
    \/ CallLogout
    \/ CookieFileSpoiled

SpecSSO == InitSSO /\ [][NextSSO]_vars

(***************************************************************************)
(* Rate limiting (scraper/rate_limiter.py): a RateLimiter and the wall      *)
(* clock it reads, in whole seconds.  rate_limiter is a record:             *)
(*   config             RateLimitConfig                                     *)
(*   time               what time.time() returns now                        *)
(*   last_request_time  self._last_request_time                             *)
(*   request_count      self._request_count                                 *)
(*   made               the wait() calls made since construction            *)
(*   completed          the wait() calls completed since construction or    *)
(*                      since the last reset()                              *)
(*   call               the last call: its name, whether it slept, and what *)
(*                      it returned (backoff: tenths of a second)           *)
(***************************************************************************)
MaxRequests == 3
MaxGap == 2
MaxAttempt == 2

\* RateLimitConfig: the defaults, and a faster limit
RateLimitConfigs ==
    [requests_per_minute : {20, 60},
     min_delay_seconds   : {2},
     max_delay_seconds   : {5},
     backoff_factor      : {2}]

\* the values random.uniform(low, high) can give, in whole seconds
Uniform(low, high) == IF low <= high THEN low..high ELSE high..low

\* the delays wait() can draw
Delays(cfg) ==
    LET min_interval == 60 \div cfg.requests_per_minute
    IN  Uniform(IF min_interval >= cfg.min_delay_seconds THEN min_interval
                ELSE cfg.min_delay_seconds,
                cfg.max_delay_seconds)

\* wait() that counts a request only when it had to sleep
WaitCountingSleeps(l, delay) ==
    LET elapsed == l.time - l.last_request_time
        woken   == IF elapsed < delay THEN l.time + (delay - elapsed) ELSE l.time
    IN  [l EXCEPT !.time = woken,
                  !.last_request_time = woken,
                  !.request_count = IF elapsed < delay THEN @ + 1 ELSE @,
                  !.call = <<"wait", elapsed < delay, 0>>]

\* RateLimiter.wait: sleeps for what is missing of the drawn delay, then
\* notes the time and counts the request
Wait(l, delay) ==
    LET elapsed == l.time - l.last_request_time
        woken   == IF elapsed < delay THEN l.time + (delay - elapsed) ELSE l.time
    IN  [l EXCEPT !.time = woken,
                  !.last_request_time = woken,
                  !.request_count = @ + 1,
                  !.call = <<"wait", elapsed < delay, 0>>]

\* RateLimiter.backoff(attempt), in tenths of a second, for a jitter given in
\* tenths: min(min_delay_seconds * backoff_factor ** attempt * jitter, 60.0)
Backoff(l, attempt, jitter) ==
    LET delay == l.config.min_delay_seconds * (l.config.backoff_factor ^ attempt)
                     * jitter
    IN  [l EXCEPT !.call = <<"backoff", FALSE, IF delay <= 600 THEN delay ELSE 600>>]

\* RateLimiter.reset
Reset(l) ==
    [l EXCEPT !.last_request_time = 0, !.request_count = 0,
              !.call = <<"reset", FALSE, 0>>]

\* the request_count property
RequestCount(l) == l.request_count

\* RateLimiter(config), at some time of day
InitRateLimiter ==
    /\ ChunkerUnused
    /\ checkpoint = <<>>
    /\ sso = <<>>
    /\ scrape_run = <<>>
    /\ \E cfg \in RateLimitConfigs :
          rate_limiter = [config |-> cfg, time |-> 100, last_request_time |-> 0,
                          request_count |-> 0, made |-> 0, completed |-> 0,
                          call |-> <<"__init__", FALSE, 0>>]

\* limiter.wait(), some seconds after the call before
CallWait ==
    /\ rate_limiter.made < MaxRequests
    /\ \E gap \in 0..MaxGap, delay \in Delays(rate_limiter.config) :
          rate_limiter' =
              [Wait([rate_limiter EXCEPT !.time = @ + gap], delay)
                  EXCEPT !.made = @ + 1, !.completed = @ + 1]
    /\ UNCHANGED <<chunker_vars, checkpoint, sso, scrape_run>>

\* limiter.backoff(attempt)
CallBackoff ==
    /\ \E attempt \in 0..MaxAttempt, jitter \in {5, 10, 15} :
          rate_limiter' = Backoff(rate_limiter, attempt, jitter)
    /\ UNCHANGED <<chunker_vars, checkpoint, sso, scrape_run>>

\* limiter.reset()
CallReset ==
    /\ rate_limiter' = [Reset(rate_limiter) EXCEPT !.completed = 0]
    /\ UNCHANGED <<chunker_vars, checkpoint, sso, scrape_run>>

NextRateLimiter == CallWait \/ CallBackoff \/ CallReset

SpecRateLimiter == InitRateLimiter /\ [][NextRateLimiter]_vars

(***************************************************************************)
(* Properties                                                              *)
(***************************************************************************)
\* _split_by_separators has returned and raw_chunks holds its result
SplitReturned ==
    pc \in {"split", "overlap"} \/ (pc = "done" /\ ~IsBlank(document.content))

\* _add_overlap has returned and chunks_with_overlap holds its result
OverlapReturned ==
    pc = "overlap" \/ (pc = "done" /\ ~IsBlank(document.content))

\* the token strategy the instance uses
Strategy == GetTokenizer(tokenizer, tiktoken_installed)

\* the fragments (paragraphs or sentences) a segment text was joined from
Fragments(segment_text) == SplitParagraphs(segment_text)

RECURSIVE SumTokens(_, _)
SumTokens(tok, frags) ==
    IF frags = <<>> THEN 0
    ELSE CountTokens(tok, frags[1]) + SumTokens(tok, Tail(frags))

RECURSIVE Flatten(_)
Flatten(seqs) == IF seqs = <<>> THEN <<>> ELSE seqs[1] \o Flatten(Tail(seqs))

\* the characters of a text that are not whitespace, in order
NonWs(s) == SelectSeq(s, LAMBDA c : ~IsSpace(c))

StartsWith(s, prefix) ==
    Len(s) >= Len(prefix) /\ SubSeq(s, 1, Len(prefix)) = prefix

\* C1: the chunks chunk_document returns are numbered 0, 1, ..., n-1 in list
\* order and each carries total_chunks_in_doc = n, the length of the list.
C1_IndicesContiguous ==
    pc = "done" =>
        \A k \in 1..Len(chunks) :
            /\ chunks[k].metadata.chunk_index = k - 1
            /\ chunks[k].metadata.total_chunks_in_doc = Len(chunks)

\* a document that was cut into three or more chunks
C1_Witness == pc = "done" /\ Len(chunks) >= 3

\* C2: every segment _split_by_separators returns has a token count (the sum
\* over its fragments) of at most chunk_size, unless it is a single sentence
\* that alone exceeds chunk_size.
C2_Budget ==
    SplitReturned =>
        \A k \in 1..Len(raw_chunks) :
            LET frags == Fragments(raw_chunks[k].text)
            IN  \/ SumTokens(Strategy, frags) <= config.chunk_size
                \/ /\ Len(frags) = 1
                   /\ Len(SplitSentences(frags[1])) = 1
                   /\ CountTokens(Strategy, frags[1]) > config.chunk_size

\* a result holding an oversized single sentence next to a segment that fills
\* the budget exactly
C2_Witness ==
    /\ SplitReturned
    /\ \E k \in 1..Len(raw_chunks) :
          SumTokens(Strategy, Fragments(raw_chunks[k].text)) > config.chunk_size
    /\ \E k \in 1..Len(raw_chunks) :
          SumTokens(Strategy, Fragments(raw_chunks[k].text)) = config.chunk_size

\* the document's non-empty paragraphs, each paragraph larger than chunk_size
\* replaced by its sentences
RECURSIVE ExpectedFragments(_, _, _)
ExpectedFragments(paragraphs, size, tok) ==
    IF paragraphs = <<>> THEN <<>>
    ELSE LET para == Strip(paragraphs[1])
             here == IF para = <<>> THEN <<>>
                     ELSE IF CountTokens(tok, para) > size
                          THEN [j \in 1..Len(SplitSentences(para)) |->
                                   Strip(SplitSentences(para)[j])]
                          ELSE <<para>>
         IN  here \o ExpectedFragments(Tail(paragraphs), size, tok)

\* C3: the fragments of the returned segments, in order, are exactly the
\* non-empty paragraphs of the text with each oversized paragraph replaced by
\* its sentences; hence the non-whitespace characters of the text are those of
\* the segments, each once and in order.
C3_Coverage ==
    SplitReturned =>
        /\ Flatten([k \in 1..Len(raw_chunks) |-> Fragments(raw_chunks[k].text)])
             = ExpectedFragments(SplitParagraphs(document.content),
                                 config.chunk_size, Strategy)
        /\ NonWs(Flatten([k \in 1..Len(raw_chunks) |-> raw_chunks[k].text]))
             = NonWs(document.content)

\* a text with an oversized paragraph of several sentences and another
\* paragraph, cut into several segments
C3_Witness ==
    /\ SplitReturned
    /\ Len(raw_chunks) >= 2
    /\ \E i \in 1..Len(SplitParagraphs(document.content)) :
          LET para == Strip(SplitParagraphs(document.content)[i])
          IN  /\ CountTokens(Strategy, para) > config.chunk_size
              /\ Len(SplitSentences(para)) >= 2
    /\ \E i \in 1..Len(SplitParagraphs(document.content)) :
          LET para == Strip(SplitParagraphs(document.content)[i])
          IN  para # <<>> /\ CountTokens(Strategy, para) <= config.chunk_size

\* The offset at which the first fragment of segment k really begins: the
\* segments hold the non-whitespace characters of the text in order (C3), so
\* segment k begins at the first non-whitespace character that the segments
\* before it do not hold.
TrueStart(k) ==
    LET text   == document.content
        before == Len(NonWs(Flatten([j \in 1..(k - 1) |-> raw_chunks[j].text])))
        index  == CHOOSE i \in 1..Len(text) :
                     /\ ~IsSpace(text[i])
                     /\ Cardinality({j \in 1..i : ~IsSpace(text[j])}) = before + 1
    IN  index - 1

\* C4: the start_offset of every returned segment is the offset in the text at
\* which the segment's first fragment begins, also when a fragment text occurs
\* more than once and when the segment begins with the first sentence of an
\* oversized paragraph.
C4_StartOffsetIsFragmentStart ==
    SplitReturned =>
        \A k \in 1..Len(raw_chunks) : raw_chunks[k].start = TrueStart(k)

\* the heading matches of the whole text that end at or before offset p
HeadingsWhollyBefore(text, p) ==
    SelectSeq(HeadingMatches(text), LAMBDA m : m.next - 1 <= p)

\* C5: the heading_path of every chunk is the heading stack at the offset
\* where the chunk's own segment begins: the level-reset rule applied to the
\* heading lines that lie wholly before the segment's first fragment, with
\* their full titles.
C5_HeadingPathAtSegmentStart ==
    pc = "done" =>
        \A k \in 1..Len(chunks) :
            chunks[k].metadata.heading_path
              = HeadingPath(HeadingsWhollyBefore(document.content, TrueStart(k)))

\* str.split("\n") of the part of the text before the offset, empty lines left out
RECURSIVE LinesFrom(_, _, _)
LinesFrom(s, i, cur) ==
    IF i > Len(s) THEN (IF cur = <<>> THEN <<>> ELSE <<cur>>)
    ELSE IF s[i] = NL
         THEN (IF cur = <<>> THEN <<>> ELSE <<cur>>) \o LinesFrom(s, i + 1, <<>>)
         ELSE LinesFrom(s, i + 1, Append(cur, s[i]))

\* the headings (level, title) that precede at_position in a text of heading
\* lines: a line is its hashes, a blank and a one-letter title
HeadingLinesBefore ==
    LET lines == LinesFrom(SubSeq(document.content, 1, at_position), 1, <<>>)
        heads == SelectSeq(lines, LAMBDA l : Len(l) - 2 <= MAX_HEADING_LEVEL)
    IN  [i \in 1..Len(heads) |->
            [level |-> Len(heads[i]) - 2, title |-> <<heads[i][Len(heads[i])]>>]]

\* level L is in scope after the headings hs: some heading of level L is not
\* followed by a heading of a smaller level
InScope(hs, L) ==
    \E i \in 1..Len(hs) :
        hs[i].level = L /\ \A j \in (i + 1)..Len(hs) : hs[j].level >= L

LastTitle(hs, L) == hs[Max({i \in 1..Len(hs) : hs[i].level = L})].title

RECURSIVE ScopeFrom(_, _)
ScopeFrom(hs, L) ==
    IF L > MAX_HEADING_LEVEL THEN <<>>
    ELSE (IF InScope(hs, L) THEN <<LastTitle(hs, L)>> ELSE <<>>) \o ScopeFrom(hs, L + 1)

\* C6: for the headings that precede the offset, the result holds, by
\* ascending level, the title of the last heading of every level L that has a
\* heading not followed by a heading of a smaller level, and nothing else;
\* each heading of level L removes the recorded levels greater than L, keeps
\* those smaller than L and sets level L.
C6_HeadingReset ==
    pc = "headings" =>
        LET hs == HeadingLinesBefore
        IN  /\ headings_found = ScopeFrom(hs, 1)
            /\ Len(headings_found) <= MAX_HEADING_LEVEL
            /\ \A k \in 1..Len(hs) :
                  LET before == BuildHierarchy(EmptyHierarchy, SubSeq(hs, 1, k - 1), 1)
                      after  == BuildHierarchy(EmptyHierarchy, SubSeq(hs, 1, k), 1)
                      L      == hs[k].level
                  IN  /\ DOMAIN after = {l \in DOMAIN before : l < L} \cup {L}
                      /\ \A l \in DOMAIN before : l < L => after[l] = before[l]
                      /\ after[L] = hs[k].title

\* a deeper heading was followed by a shallower one and two levels remain
C6_Witness ==
    /\ pc = "headings"
    /\ Len(headings_found) >= 2
    /\ \E i, j \in 1..Len(HeadingLinesBefore) :
          i < j /\ HeadingLinesBefore[i].level > HeadingLinesBefore[j].level

\* C7: no heading whose line starts at or after the offset is returned: every
\* title of a chunk's heading_path belongs to a heading of the document that
\* starts before the chunk's own segment, and a document packed into one
\* segment starting at offset 0 has an empty heading_path.
C7_StrictlyBefore ==
    pc = "done" =>
        \A k \in 1..Len(chunks) :
            LET path    == chunks[k].metadata.heading_path
                offset  == chunks_with_overlap[k].start
                scanned == ScannedHeadings(document.content, offset)
                earlier == SelectSeq(HeadingMatches(document.content),
                                     LAMBDA m : m.start < TrueStart(k))
            IN  /\ path = HeadingPath(scanned)
                /\ \A m \in 1..Len(scanned) : scanned[m].start < offset
                /\ Len(path) <= Len(earlier)
                /\ \A t \in 1..Len(path) :
                      \E m \in 1..Len(earlier) : StartsWith(earlier[m].title, path[t])
                /\ (Len(chunks) = 1 /\ raw_chunks[1].start = 0) => path = <<>>

\* a chunk with a heading before it and a heading inside or after its own segment
C7_Witness ==
    /\ pc = "done"
    /\ \E k \in 1..Len(chunks) :
          /\ chunks[k].metadata.heading_path # <<>>
          /\ \E m \in 1..Len(HeadingMatches(document.content)) :
                HeadingMatches(document.content)[m].start >= TrueStart(k)

\* C8 as stated: the first chunk never begins with "...".
C8_FirstChunkNeverEllipsis ==
    (pc = "done" /\ chunks # <<>>) => ~StartsWith(chunks[1].text, ELLIPSIS)

\* C8 amended: the first chunk never receives an overlap prefix: its text is
\* the text of the first segment as split, so it begins with "..." only when
\* the document's first paragraph does.
C8_FirstChunkUnchanged ==
    (pc = "done" /\ chunks # <<>>) =>
        /\ chunks_with_overlap[1] = raw_chunks[1]
        /\ chunks[1].text = raw_chunks[1].text

\* overlap is on, a later chunk received its prefix, and the first chunk begins
\* with the "..." of the document itself
C8_Witness ==
    /\ pc = "done"
    /\ config.chunk_overlap > 0
    /\ Len(chunks) >= 2
    /\ chunks_with_overlap[2].text # raw_chunks[2].text
    /\ StartsWith(chunks[1].text, ELLIPSIS)

\* the last k elements of ws, all of them when there are fewer than k
LastWords(ws, k) ==
    LET n == IF Len(ws) < k THEN Len(ws) ELSE k
    IN  [j \in 1..n |-> ws[Len(ws) - n + j]]

\* C9: with chunk_overlap = k > 0, segment i >= 1 becomes "..." + W + "\n\n" +
\* its original text, W being the last k words (all, if fewer) of the original
\* text of segment i-1 joined by single blanks.
C9_OverlapContent ==
    (OverlapReturned /\ config.chunk_overlap > 0) =>
        \A i \in 2..Len(chunks_with_overlap) :
            chunks_with_overlap[i].text
              = ELLIPSIS
                \o Join(LastWords(Words(raw_chunks[i - 1].text), config.chunk_overlap),
                        <<SP>>)
                \o PARA_SEP \o raw_chunks[i].text

\* three or more segments, one of them preceded by a segment of more than k words
C9_Witness ==
    /\ OverlapReturned
    /\ config.chunk_overlap > 0
    /\ Len(chunks_with_overlap) >= 3
    /\ \E i \in 2..Len(raw_chunks) :
          Len(Words(raw_chunks[i - 1].text)) > config.chunk_overlap

\* C10: _add_overlap keeps the number of segments, their order and every
\* start_offset, never changes the text of segment 0, and returns its input
\* when chunk_overlap is 0 or the list is empty.
C10_OverlapFrame ==
    OverlapReturned =>
        /\ Len(chunks_with_overlap) = Len(raw_chunks)
        /\ \A i \in 1..Len(raw_chunks) :
              chunks_with_overlap[i].start = raw_chunks[i].start
        /\ raw_chunks # <<>> => chunks_with_overlap[1].text = raw_chunks[1].text
        /\ (config.chunk_overlap = 0 \/ raw_chunks = <<>>) =>
              chunks_with_overlap = raw_chunks

\* a direct call that changed the text of a later segment
C10_Witness ==
    /\ pc = "overlap"
    /\ config.chunk_overlap > 0
    /\ Len(raw_chunks) >= 2
    /\ chunks_with_overlap # raw_chunks

\* the pieces of a segment text between the "\n\n" its fragments were joined
\* with (text.split("\n\n"))
RECURSIVE PackedFrom(_, _, _)
PackedFrom(s, i, start) ==
    IF i >= Len(s) THEN <<SubSeq(s, start, Len(s))>>
    ELSE IF s[i] = NL /\ s[i + 1] = NL
         THEN <<SubSeq(s, start, i - 1)>> \o PackedFrom(s, i + 2, i + 2)
         ELSE PackedFrom(s, i + 1, start)

PackedFragments(segment_text) == PackedFrom(segment_text, 1, 1)

\* C11: every segment _split_by_separators returns and every chunk
\* chunk_document returns has a text with a non-whitespace character, and each
\* fragment packed into a segment has one too: no empty paragraph and no empty
\* piece of a sentence split is ever packed.
C11_NonWhitespaceText ==
    /\ SplitReturned =>
          \A k \in 1..Len(raw_chunks) :
              /\ NonWs(raw_chunks[k].text) # <<>>
              /\ \A j \in 1..Len(PackedFragments(raw_chunks[k].text)) :
                     NonWs(PackedFragments(raw_chunks[k].text)[j]) # <<>>
    /\ pc = "done" =>
          \A k \in 1..Len(chunks) : NonWs(chunks[k].text) # <<>>

\* a document with a whitespace-only paragraph next to a paragraph that ends
\* in whitespace after its last sentence and was split into its sentences
C11_Witness ==
    /\ pc = "done"
    /\ Len(chunks) >= 2
    /\ \E i \in 1..Len(SplitParagraphs(document.content)) :
          /\ SplitParagraphs(document.content)[i] # <<>>
          /\ Strip(SplitParagraphs(document.content)[i]) = <<>>
    /\ \E i \in 1..Len(SplitParagraphs(document.content)) :
          LET para == SplitParagraphs(document.content)[i]
          IN  /\ Len(para) >= 2
              /\ para[Len(para)] = SP
              /\ para[Len(para) - 1] = "."
    /\ \E k \in 1..Len(raw_chunks) : Len(PackedFragments(raw_chunks[k].text)) >= 2

\* C12: for a document whose content is empty or whitespace-only,
\* chunk_document returns the empty list and _split_by_separators returns no
\* segment at all; neither call raises, whatever the state of the tokenizer
\* library.
C12_EmptyInput ==
    IsBlank(document.content) =>
        /\ pc # "raised"
        /\ pc \in {"split", "overlap"} => raw_chunks = <<>>
        /\ pc = "overlap" => chunks_with_overlap = <<>>
        /\ pc = "done" => chunks = <<>>

\* chunk_document has returned for a document of two whitespace-only
\* paragraphs, on a machine where loading the tokenizer would raise
C12_Witness ==
    /\ pc = "done"
    /\ document.content = <<SP>> \o PARA_SEP \o <<SP>>
    /\ tiktoken_installed /\ ~encoding_loads
    /\ chunks = <<>>

\* C13: a chunk_document call either returns the complete list, one chunk per
\* segment of the document, each numbered against the full count, or raises
\* and returns nothing; when the tokenizer fails to load the call raises, the
\* failure is not swallowed into a returned list, and no chunk and no
\* intermediate list of the document is left behind.
C13_AllOrNothing ==
    /\ pc = "done" =>
          /\ Len(chunks) = Len(raw_chunks)
          /\ ~IsBlank(document.content) => chunks # <<>>
          /\ \A k \in 1..Len(chunks) :
                 chunks[k].metadata.total_chunks_in_doc = Len(raw_chunks)
    /\ pc = "raised" =>
          /\ chunks = <<>> /\ raw_chunks = <<>> /\ chunks_with_overlap = <<>>
          /\ tokenizer = "None"
    /\ (~IsBlank(document.content) /\ tiktoken_installed /\ ~encoding_loads) =>
          pc \in {"idle", "raised"}

\* both outcomes: here a call has raised on a document of two paragraphs
C13_Witness ==
    /\ pc = "raised"
    /\ Len(SplitBySeparators(document.content, config.chunk_size, "tiktoken")) >= 2
    /\ chunks = <<>>

\* C14: once a _get_tokenizer call has returned a strategy, _tokenizer holds
\* that strategy for good and every later _count_tokens call counts with it,
\* whatever is installed or removed meanwhile; tiktoken.get_encoding returns
\* an encoding to the instance at most once.
C14_StickyStrategy ==
    /\ load_count <= 1
    /\ first_strategy # "None" =>
          /\ tokenizer = first_strategy
          /\ used_strategy = first_strategy
          /\ pc = "counted" => token_count = CountTokens(first_strategy, counted_text)
    /\ first_strategy = "None" => tokenizer = "None"

\* the instance fell back to counting words, tiktoken was installed
\* afterwards, and a later call still counted words
C14_Witness ==
    /\ pc = "counted"
    /\ calls >= 2
    /\ first_strategy = "word"
    /\ tiktoken_installed /\ encoding_loads
    /\ token_count # EncodeLen(counted_text)

\* the exact tokenizer cannot be initialised: tiktoken is absent, or its
\* encoding fails to load
InitializationFails == ~tiktoken_installed \/ ~encoding_loads

Undated(cs) == [k \in 1..Len(cs) |-> [cs[k] EXCEPT !.metadata.extraction_date = 0]]

\* what chunk_document returns for the i-th document of the batch when it is
\* called alone, on a fresh Chunker, at the given time
Alone(i, time) ==
    ChunkDocumentCall(documents[i], config, "None", tiktoken_installed,
                      encoding_loads, time)

\* C16 as stated: two chunk_document calls on the same document with the same
\* configuration return equal chunk lists, all metadata fields included.
C16_EqualChunkLists ==
    pc = "batch" =>
        \A i, j \in 1..Len(documents) :
            documents[i] = documents[j] => call_results[i] = call_results[j]

\* C16, amended: two chunk_document calls on the same document with the same
\* configuration, at any two times, on the same Chunker or on a fresh one in
\* the same environment, return chunk lists equal in ids, texts and all
\* metadata fields except extraction_date, which is the time of the call.
C16_EqualButForExtractionDate ==
    pc = "batch" =>
        \A i \in 1..Len(documents) :
            /\ \A j \in 1..Len(documents) :
                   documents[i] = documents[j] =>
                       Undated(call_results[i]) = Undated(call_results[j])
            /\ \A time \in {0, clock + 1} :
                   Undated(call_results[i]) = Undated(Alone(i, time).chunks)
            /\ \A k \in 1..Len(call_results[i]) :
                   call_results[i][k].metadata.extraction_date = call_times[i]

\* the same document chunked twice in one batch, at two different times,
\* into several chunks
C16_Witness ==
    /\ pc = "batch"
    /\ Len(documents) = 2
    /\ documents[1] = documents[2]
    /\ call_times[1] # call_times[2]
    /\ Len(call_results[1]) >= 2
    /\ call_results[1] # call_results[2]

\* C17: in the list chunk_documents returns, two chunks with equal text carry
\* equal content_hash whatever their document and index, the hash being the
\* digest of the text; every id is "{document_id}_chunk_{chunk_index}" with
\* the id of the chunk's own document, so two chunks share an id only if they
\* share document id and index.
C17_HashOfTextIdOfDocumentAndIndex ==
    pc = "batch" =>
        /\ \A a, b \in 1..Len(all_chunks) :
               /\ all_chunks[a].text = all_chunks[b].text =>
                      all_chunks[a].metadata.content_hash
                          = all_chunks[b].metadata.content_hash
               /\ all_chunks[a].id = all_chunks[b].id <=>
                      /\ all_chunks[a].metadata.document_id
                             = all_chunks[b].metadata.document_id
                      /\ all_chunks[a].metadata.chunk_index
                             = all_chunks[b].metadata.chunk_index
        /\ \A a \in 1..Len(all_chunks) :
               /\ all_chunks[a].metadata.content_hash = Md5(all_chunks[a].text)
               /\ all_chunks[a].id = <<all_chunks[a].metadata.document_id, "_chunk_",
                                        all_chunks[a].metadata.chunk_index>>
        /\ \A i \in 1..Len(call_results) : \A k \in 1..Len(call_results[i]) :
               call_results[i][k].metadata.document_id = documents[i].id

\* doc1 and doc2 hold the same text: a chunk of each with equal text, equal
\* hash, equal index and different ids
C17_Witness ==
    /\ pc = "batch"
    /\ \E a, b \in 1..Len(all_chunks) :
          /\ all_chunks[a].metadata.document_id = "doc1"
          /\ all_chunks[b].metadata.document_id = "doc2"
          /\ all_chunks[a].text = all_chunks[b].text
          /\ all_chunks[a].metadata.chunk_index = all_chunks[b].metadata.chunk_index
          /\ all_chunks[a].metadata.content_hash = all_chunks[b].metadata.content_hash
          /\ all_chunks[a].id # all_chunks[b].id

\* the segments of the i-th document of the batch after _add_overlap
Overlapped(i) ==
    AddOverlap(SplitBySeparators(documents[i].content, config.chunk_size, tokenizer),
               config.chunk_overlap)

\* what chunk_document returns for the i-th document with preserve_headings
\* switched the other way
WithPreserveFlipped(i) ==
    ChunkDocumentCall(documents[i], [config EXCEPT !.preserve_headings = ~@],
                      "None", tiktoken_installed, encoding_loads, 0).chunks

\* C18 as stated: the text of a chunk begins with the context line of its
\* heading path if and only if preserve_headings is set and the path is not
\* empty.
C18_ContextLineIffPreserved ==
    pc = "batch" =>
        \A a \in 1..Len(all_chunks) :
            StartsWith(all_chunks[a].text,
                       ContextPrefix(all_chunks[a].metadata.heading_path))
            <=> (config.preserve_headings
                 /\ all_chunks[a].metadata.heading_path # <<>>)

\* C18, amended: the text of a chunk is its segment text after overlap, with
\* the context line of its heading path put in front exactly when
\* preserve_headings is set and the path is not empty; the overlap prefix
\* "..." then follows the context line; and the heading_path recorded is the
\* same with preserve_headings set or not.
C18_ContextDecoration ==
    pc = "batch" =>
        \A i \in 1..Len(documents) :
            /\ Len(call_results[i]) = Len(Overlapped(i))
            /\ \A k \in 1..Len(call_results[i]) :
                   LET chunk == call_results[i][k]
                       path  == chunk.metadata.heading_path
                   IN  /\ chunk.text =
                             (IF config.preserve_headings /\ path # <<>>
                              THEN ContextPrefix(path) ELSE <<>>)
                             \o Overlapped(i)[k].text
                       /\ (k > 1 /\ config.chunk_overlap > 0) =>
                             StartsWith(Overlapped(i)[k].text, ELLIPSIS)
                       /\ path = WithPreserveFlipped(i)[k].metadata.heading_path

\* a chunk under a heading with both prefixes: the context line first, the
\* overlap prefix after it
C18_Witness ==
    /\ pc = "batch"
    /\ config.preserve_headings /\ config.chunk_overlap > 0
    /\ \E i \in 1..Len(documents) : \E k \in 2..Len(call_results[i]) :
          LET chunk == call_results[i][k]
          IN  /\ chunk.metadata.heading_path # <<>>
              /\ StartsWith(chunk.text,
                            ContextPrefix(chunk.metadata.heading_path) \o ELLIPSIS)

\* C20: chunk_documents returns the concatenation, in input order, of what
\* chunk_document returns for each document called alone on a fresh Chunker
\* at the same time, and raises exactly when one of those calls raises; the
\* chunks of each document are numbered from 0 against that document's own
\* count, and a document with blank content contributes nothing.
C20_ConcatenationOfChunkDocument ==
    /\ pc = "batch" =>
          /\ Len(call_results) = Len(documents)
          /\ all_chunks = Flatten([i \in 1..Len(documents) |->
                                      Alone(i, call_times[i]).chunks])
          /\ \A i \in 1..Len(documents) :
                 /\ ~Alone(i, call_times[i]).raised
                 /\ call_results[i] = Alone(i, call_times[i]).chunks
                 /\ IsBlank(documents[i].content) => call_results[i] = <<>>
                 /\ \A k \in 1..Len(call_results[i]) :
                        /\ call_results[i][k].metadata.chunk_index = k - 1
                        /\ call_results[i][k].metadata.total_chunks_in_doc
                               = Len(call_results[i])
    /\ (pc = "raised" /\ documents # <<>>) =>
          \E i \in 1..Len(documents) : Alone(i, 0).raised

\* a batch of two different documents, each cut into several chunks, behind
\* one another in the result
C20_Witness ==
    /\ pc = "batch"
    /\ Len(documents) = 2
    /\ documents[1].id # documents[2].id
    /\ documents[1].content # documents[2].content
    /\ Len(call_results[1]) >= 2
    /\ Len(call_results[2]) >= 2
    /\ all_chunks[Len(call_results[1]) + 1].metadata.chunk_index = 0

\* what chunk_document does for thread t's document when it is called alone
\* on a fresh Chunker
AloneThread(t) ==
    ChunkDocumentCall([id |-> t, content |-> threads[t].content], config, "None",
                      tiktoken_installed, encoding_loads, clock)

\* C19: with two threads calling chunk_document on one Chunker, in any
\* interleaving of their reads and writes of _tokenizer, a call that returns
\* has counted every time with the strategy it would have used alone and
\* returns the chunks it would have returned alone, a call raises only if it
\* would have raised alone, and once all calls have ended _tokenizer holds the
\* one strategy every count was made with, or None if nothing was counted.
C19_SharedChunker ==
    /\ \A t \in ThreadIds :
          /\ threads[t].pc = "done" =>
                /\ ~AloneThread(t).raised
                /\ threads[t].result = AloneThread(t).chunks
                /\ \A k \in 1..Len(threads[t].used) :
                       threads[t].used[k] = AloneThread(t).tokenizer
          /\ threads[t].pc = "raised" => AloneThread(t).raised
    /\ (\A t \in ThreadIds : threads[t].pc \in {"done", "raised"}) =>
          /\ \A t \in ThreadIds : \A k \in 1..Len(threads[t].used) :
                 threads[t].used[k] = tokenizer
          /\ tokenizer = "None" <=> \A t \in ThreadIds : threads[t].used = <<>>

\* both threads found _tokenizer empty and both assigned it; each went on to
\* count twice or more and returned chunks
C19_Witness ==
    \A t \in ThreadIds :
        /\ threads[t].pc = "done"
        /\ threads[t].stores = 1
        /\ Len(threads[t].used) >= 2
        /\ threads[t].result # <<>>
\* C21: in every state of a CheckpointManager that holds a progress, however
\* start_new, mark_processed, mark_failed and update_section were called and
\* however their saves ended, processed_urls holds no URL twice, failed_urls
\* holds no URL twice, and documents_saved is the length of processed_urls.
C21_IdempotentMarks ==
    checkpoint.progress # None =>
        LET p == checkpoint.progress[1]
        IN  /\ NoDuplicate(p.processed_urls)
            /\ NoDuplicate(p.failed_urls)
            /\ p.documents_saved = Len(p.processed_urls)

\* mark_processed("u1") was called on a progress that already held u1 and u2
\* and left it alone
C21_Witness ==
    /\ checkpoint.call = <<"mark_processed", "u1", "unchanged">>
    /\ checkpoint.progress # None
    /\ Elements(checkpoint.progress[1].processed_urls) = {"u1", "u2"}
    /\ checkpoint.progress[1].documents_saved = 2

\* the five fields of a progress that a resumed run reads
Resumable(p) ==
    <<p.total_resources, p.processed_urls, p.failed_urls, p.current_section,
      p.documents_saved>>

\* the last call was one of the four writing calls and returned
WritingCallReturned ==
    /\ checkpoint.call[1] \in {"start_new", "mark_processed", "mark_failed",
                               "update_section"}
    /\ checkpoint.call[3] \in {"saved", "unchanged"}

\* C22: when start_new, mark_processed, mark_failed or update_section has
\* returned without raising, load() of a fresh manager on the directory gives
\* a progress with the total_resources, processed_urls, failed_urls,
\* current_section and documents_saved of the caller's in-memory progress.
C22_Durability ==
    WritingCallReturned =>
        /\ Loaded(checkpoint.file) # None
        /\ Resumable(Loaded(checkpoint.file)[1]) = Resumable(checkpoint.progress[1])

\* the URLs the run's checkpoint holds as processed
ProcessedNow ==
    IF checkpoint.progress = None THEN {}
    ELSE Elements(checkpoint.progress[1].processed_urls)

\* C23: during a run of the scrape command no scrape_page or process_pdf call
\* is made for a URL for which is_processed is true at the time of the call;
\* in particular nothing the checkpoint held when the loop began (top-level
\* resource, book chapter or folder file) is fetched in the run.
C23_ProcessedNeverFetched ==
    \A k \in 1..Len(scrape_run.log) :
        /\ ~scrape_run.log[k].known
        /\ scrape_run.log[k].url \notin scrape_run.known_at_start

\* a resumed run has finished in which the page p1 and the chapter c1, both
\* processed by the run before, were passed over and only the chapter c2 was
\* fetched
C23_Witness ==
    /\ scrape_run.resume
    /\ scrape_run.ended = "finished"
    /\ scrape_run.known_at_start = {"p1", "c1"}
    /\ Len(scrape_run.log) = 1
    /\ scrape_run.log[1].url = "c2"
    /\ scrape_run.log[1].got
    /\ ProcessedNow = {"p1", "c1", "c2"}

\* a step that is a whole get_valid_session call
GetValidSessionStep ==
    /\ sso'.calls = sso.calls + 1
    /\ sso'.call.name = "get_valid_session"

\* the cookie file gave cookies and the server accepted them
CachedSessionValid ==
    /\ Truthy(LoadCookies(sso.cookie_file))
    /\ sso'.call.valid

\* C24: a get_valid_session call starts an interactive login exactly when
\* force_login is true, or the cookie file gives no cookies (absent,
\* unreadable or an empty list), or the session built from them fails
\* validation; with force_login the cookie file is not read; and a cached
\* session that validates is returned with no login, no browser and the
\* cookie file untouched.
C24_LoginIffNeeded ==
    [][GetValidSessionStep =>
          /\ sso'.call.login <=> (sso'.call.force_login \/ ~CachedSessionValid)
          /\ sso'.call.force_login => ~sso'.call.read /\ ~sso'.call.validated
          /\ (~sso'.call.force_login /\ Truthy(LoadCookies(sso.cookie_file))) =>
                 sso'.call.validated
          /\ (~sso'.call.force_login /\ CachedSessionValid) =>
                 /\ sso'.call.outcome = "returned"
                 /\ ~sso'.call.created
                 /\ sso'.cookie_file = sso.cookie_file
                 /\ sso'.browsers = sso.browsers]_vars

\* a login saved cookies, and the next get_valid_session found them valid and
\* returned the cached session without a login
C24_Witness ==
    /\ sso.calls >= 2
    /\ sso.call.name = "get_valid_session"
    /\ ~sso.call.force_login
    /\ sso.call.read
    /\ sso.call.valid
    /\ ~sso.call.login
    /\ sso.call.outcome = "returned"
    /\ sso.cookie_file = <<"cookies", <<"MoodleSession">> >>

\* C25: when login_interactive has ended, a Chrome that was started has been
\* quit exactly once and _driver is None; the call either returned or raised
\* AuthenticationError; and cookies were saved only after a success URL was
\* seen before the timeout.
C25_BrowserReleased ==
    (sso.call.login /\ sso.call.outcome # "running") =>
        /\ sso.call.created => sso.call.quits = 1
        /\ sso.driver = "None"
        /\ sso.call.outcome \in {"returned", "AuthenticationError"}
        /\ sso.call.saved => sso.call.success_seen

\* C26: request_count is the number of wait() calls completed since the
\* limiter was constructed or last reset: every wait adds exactly one
\* whether it slept or not, reset leaves the count and the last request time
\* at 0, and backoff changes neither.
C26_CountsCompletedWaits ==
    [][/\ RequestCount(rate_limiter) = rate_limiter.completed
       /\ RequestCount(rate_limiter') = rate_limiter'.completed
       /\ rate_limiter'.made = rate_limiter.made + 1 =>
              RequestCount(rate_limiter') = RequestCount(rate_limiter) + 1
       /\ rate_limiter'.call[1] = "reset" =>
              /\ RequestCount(rate_limiter') = 0
              /\ rate_limiter'.last_request_time = 0
       /\ rate_limiter'.call[1] = "backoff" =>
              /\ RequestCount(rate_limiter') = RequestCount(rate_limiter)
              /\ rate_limiter'.last_request_time = rate_limiter.last_request_time
      ]_vars

\* one wait, a reset, then two waits of which the last did not sleep: the
\* count is 2
C26_Witness ==
    /\ rate_limiter.made = 3
    /\ rate_limiter.completed = 2
    /\ RequestCount(rate_limiter) = 2
    /\ rate_limiter.call = <<"wait", FALSE, 0>>
    /\ rate_limiter.last_request_time = rate_limiter.time

\* for each fragment of ExpectedFragments, whether it is the first sentence
\* of a paragraph larger than chunk_size
RECURSIVE ForcedFlushFragments(_, _, _)
ForcedFlushFragments(paragraphs, size, tok) ==
    IF paragraphs = <<>> THEN <<>>
    ELSE LET para == Strip(paragraphs[1])
             here == IF para = <<>> THEN <<>>
                     ELSE IF CountTokens(tok, para) > size
                          THEN [j \in 1..Len(SplitSentences(para)) |-> j = 1]
                          ELSE <<FALSE>>
         IN  here \o ForcedFlushFragments(Tail(paragraphs), size, tok)

\* the number of fragments in the first k segments
RECURSIVE FragmentsUpTo(_)
FragmentsUpTo(k) ==
    IF k = 0 THEN 0
    ELSE Len(Fragments(raw_chunks[k].text)) + FragmentsUpTo(k - 1)

\* segment k + 1 begins with the first sentence of an oversized paragraph
BeginsOversizedParagraph(k) ==
    ForcedFlushFragments(SplitParagraphs(document.content), config.chunk_size,
                         Strategy)[FragmentsUpTo(k) + 1]

\* segment k could have taken the first fragment of segment k + 1
NextFragmentFits(k) ==
    SumTokens(Strategy, Fragments(raw_chunks[k].text))
        + CountTokens(Strategy, Fragments(raw_chunks[k + 1].text)[1])
      <= config.chunk_size

\* C27: between two consecutive segments of _split_by_separators the first
\* fragment of the later one would not have fitted into the earlier one
\* (their token counts add up to more than chunk_size), except where the
\* later segment begins with the first sentence of a paragraph that is itself
\* larger than chunk_size, before which the accumulator is always flushed.
C27_GreedyMaximal ==
    SplitReturned =>
        \A k \in 1..(Len(raw_chunks) - 1) :
            NextFragmentFits(k) => BeginsOversizedParagraph(k)

\* "a", then "a. b. a." with chunk_size 2: the flush before the oversized
\* paragraph separates "a" from a sentence that would have fitted, and the
\* third sentence opens a segment because the first two fill the budget
C27_Witness ==
    /\ SplitReturned
    /\ Len(raw_chunks) = 3
    /\ NextFragmentFits(1)
    /\ BeginsOversizedParagraph(1)
    /\ ~NextFragmentFits(2)
    /\ ~BeginsOversizedParagraph(2)
    /\ Len(Fragments(raw_chunks[2].text)) = 2

\* C28: the start offsets of the segments _split_by_separators returns are
\* strictly increasing in segment order, so no two segments of a document
\* share a start offset and none starts before an earlier one.
C28_StartOffsetsIncreasing ==
    SplitReturned =>
        \A k \in 1..(Len(raw_chunks) - 1) :
            raw_chunks[k].start < raw_chunks[k + 1].start

\* the URLs progress.json records as processed
RecordedProcessed ==
    IF Loaded(checkpoint.file) = None THEN {}
    ELSE Elements(Loaded(checkpoint.file)[1].processed_urls)

\* the URLs of the documents in documents.jsonl
Exported ==
    IF scrape_run.documents_jsonl = <<>> THEN {}
    ELSE Elements(scrape_run.documents_jsonl[1])

\* C29: when a run of the scrape command has finished, every run after the
\* first having been given --resume, each URL that progress.json records as
\* processed has its document in documents.jsonl.
C29_ResumeKeepsDocuments ==
    (scrape_run.pc = "idle" /\ scrape_run.ended = "finished" /\ scrape_run.all_resumed)
        => RecordedProcessed \subseteq Exported

\* the URLs the run's checkpoint holds as failed
FailedNow ==
    IF checkpoint.progress = None THEN {}
    ELSE Elements(checkpoint.progress[1].failed_urls)

\* the URLs for which a scrape_page or process_pdf call of the run gave a
\* document
Obtained ==
    {scrape_run.log[k].url : k \in {j \in 1..Len(scrape_run.log) : scrape_run.log[j].got}}

\* the resource loop of a run has ended normally
LoopFinished ==
    \/ scrape_run.pc = "loop" /\ scrape_run.i > Len(scrape_run.resources)
    \/ scrape_run.pc = "idle" /\ scrape_run.ended = "finished"

\* C30: when the resource loop of a run has finished and no checkpoint write
\* of the run failed, every top-level resource URL is in processed_urls or in
\* failed_urls; a URL enters processed_urls during a run only after a fetch
\* of the run gave a document for it; and an exception inside the handling
\* of a resource leaves that resource in failed_urls with the loop moving on.
C30_EveryResourceAccounted ==
    /\ (LoopFinished /\ ~scrape_run.disk_failed) =>
          \A k \in 1..Len(scrape_run.resources) :
              scrape_run.resources[k].url \in ProcessedNow \cup FailedNow
    /\ scrape_run.runs >= 1 /\ scrape_run.ended \notin {"session", "discover", "start_new"}
          => (ProcessedNow \ scrape_run.known_at_start) \subseteq Obtained
    /\ (scrape_run.caught /\ ~scrape_run.disk_failed) =>
          /\ scrape_run.pc = "loop" \/ scrape_run.ended \in {"finished", "interrupted"}
          /\ scrape_run.resources[scrape_run.i - 1].url \in FailedNow

\* a loop has finished in which the page gave a document and the handling of
\* the book raised: the page is processed, the book is failed
C30_Witness ==
    /\ scrape_run.pc = "loop"
    /\ scrape_run.i > Len(scrape_run.resources)
    /\ ~scrape_run.disk_failed
    /\ scrape_run.caught
    /\ ProcessedNow = {"p1"}
    /\ FailedNow = {"b1"}

====
